---- MODULE Spec2Model ----
(***************************************************************************)
(* Model of backend/server.py: the CO / PO / CO-PO mapping / question      *)
(* handlers and the first-run setup handlers, over a document store.       *)
(*                                                                         *)
(* A collection is a sequence of documents in insertion (natural) order.   *)
(* find_one returns the first matching document, replace_one / update_one  *)
(* / delete_one act on the first matching document, insert_one appends.    *)
(* A write that would break a unique index created by startup_event is     *)
(* refused by the store (DuplicateKeyError); no handler catches it, so the *)
(* request ends with status 500.                                           *)
(*                                                                         *)
(* Timestamps (created_at, updated_at, last_login_at) and free-text fields *)
(* that no handler reads are left out of the documents.                    *)
(***************************************************************************)
EXTENDS Integers, Sequences, FiniteSets, TLC

VARIABLES
    users,            \* db.users
    departments,      \* db.departments
    programs,         \* db.programs
    courses,          \* db.courses
    subjects,         \* db.subjects
    pos,              \* db.pos
    cos,              \* db.cos
    co_po_mappings,   \* db.co_po_mappings
    questions,        \* db.questions
    exam_questions,   \* db.exam_questions
    setup,            \* db.setup
    next_uuid,        \* number of ids generate_uuid has handed out
    last,             \* the last completed request and its response
    pc,               \* concurrent requests: position of each request
    req,              \* concurrent requests: the request of each process
    loc,              \* concurrent requests: the handler's local variables
    resp,             \* concurrent requests: the response of each request
    keyed,            \* concurrent creates: the unique-indexed collections
    tokens,           \* the tokens handed to clients so far
    now               \* the clock, in minutes

hierVars == <<departments, programs, courses>>
storeVars == <<users, departments, programs, courses, subjects, pos, cos, co_po_mappings,
               questions, exam_questions, setup>>
procVars == <<pc, req, loc, resp, keyed, tokens, now>>
vars == <<users, departments, programs, courses, subjects, pos, cos, co_po_mappings,
          questions, exam_questions, setup, next_uuid, last, pc, req, loc, resp, keyed, tokens, now>>

(***************************************************************************)
(* Bounds of the model.                                                    *)
(***************************************************************************)
MaxCOs == 2
MaxMappings == 2
MaxQuestions == 1
MaxVersion == 2
MaxUsers == 2
MaxUuids == 3
MaxPOs == 3
MaxRecords == 3
MaxRounds == 2

\* cursor.to_list(1000): the length every list handler passes to the driver.
ListLimit == 1000

(***************************************************************************)
(* Enums.                                                                  *)
(***************************************************************************)
SUPER_ADMIN == "SUPER_ADMIN"
TEACHER == "TEACHER"
STUDENT == "STUDENT"
UserRole == {SUPER_ADMIN, TEACHER, STUDENT}

MCQ == "MCQ"
MSQ == "MSQ"
TRUE_FALSE == "TRUE_FALSE"
NUMERIC == "NUMERIC"
SHORT == "SHORT"
DESCRIPTIVE == "DESCRIPTIVE"
CODE == "CODE"
QuestionType == {MCQ, MSQ, TRUE_FALSE, NUMERIC, SHORT, DESCRIPTIVE, CODE}

(***************************************************************************)
(* Python values of the optional question fields.  options is None, {} or  *)
(* a non-empty dict; correct_key is None, "", "A", [], ["A","B"], 0.0 or   *)
(* 42.5.  Truthy is Python's truth value, which `not x` negates.           *)
(***************************************************************************)
PyNone == "None"
OptionsValues == {PyNone, "dict:{}", "dict:{A,B}"}
CorrectKeyValues == {PyNone, "str:", "str:A", "list:[]", "list:[A,B]", "float:0.0", "float:42.5"}
Falsy == {PyNone, "dict:{}", "str:", "list:[]", "float:0.0"}
Truthy(v) == v \notin Falsy

(***************************************************************************)
(* The document store.                                                     *)
(***************************************************************************)
Min(S) == CHOOSE x \in S : \A y \in S : x <= y

\* Index of the first document of coll that matches, 0 when none does.
FindOne(coll, Match(_)) ==
    LET hits == {i \in 1..Len(coll) : Match(coll[i])}
    IN IF hits = {} THEN 0 ELSE Min(hits)

CountDocuments(coll, Match(_)) ==
    Cardinality({i \in 1..Len(coll) : Match(coll[i])})

Found(i) == i # 0

\* A unique index: no two documents of the collection have the same Key.
Collides(coll, skip, doc, Key(_)) ==
    \E i \in 1..Len(coll) : i # skip /\ Key(coll[i]) = Key(doc)

\* insert_one under a unique index on Key; ok = FALSE is DuplicateKeyError.
InsertOneUnique(coll, doc, Key(_)) ==
    IF Collides(coll, 0, doc, Key)
    THEN [ok |-> FALSE, coll |-> coll]
    ELSE [ok |-> TRUE, coll |-> Append(coll, doc)]

\* insert_one into a collection with no unique index.
InsertOne(coll, doc) == [ok |-> TRUE, coll |-> Append(coll, doc)]

\* replace_one of document i (the first match of the filter) under a unique index.
ReplaceOneUnique(coll, i, doc, Key(_)) ==
    IF Collides(coll, i, doc, Key)
    THEN [ok |-> FALSE, coll |-> coll]
    ELSE [ok |-> TRUE, coll |-> [coll EXCEPT ![i] = doc]]

ReplaceOne(coll, i, doc) == [ok |-> TRUE, coll |-> [coll EXCEPT ![i] = doc]]

\* A delete that removes the last document, whatever the filter matched.
DeleteLast(coll, i) == SubSeq(coll, 1, Len(coll) - 1)

DeleteOne(coll, i) ==
    [j \in 1..(Len(coll) - 1) |-> IF j < i THEN coll[j] ELSE coll[j + 1]]

\* The unique indexes startup_event creates.
CoIndexKey(d) == <<d.subject_id, d.code>>
PoIndexKey(d) == <<d.program_id, d.code>>
MappingIndexKey(d) == <<d.co_id, d.po_id>>
UserIndexKey(d) == d.email

(***************************************************************************)
(* Responses.                                                              *)
(***************************************************************************)
\* The body or the result of a request that has none.
NoBody == [id |-> "-"]

Response(status, detail, coll) == [status |-> status, detail |-> detail, coll |-> coll]

\* An exception no handler catches: the framework answers 500.
ServerError(coll) == Response(500, "Internal Server Error", coll)

(***************************************************************************)
(* Dependencies.                                                           *)
(***************************************************************************)
\* get_teacher_user: the coarse role gate of every CO, mapping and question mutation.
TeacherGate(current_user) == current_user.role \in {SUPER_ADMIN, TEACHER}

\* A role check in place of the ownership check.
AllowedByRole(current_user, subject) ==
    current_user.role \in {SUPER_ADMIN, TEACHER}

\* The ownership check repeated in every handler.
Allowed(current_user, subject) ==
    current_user.role = SUPER_ADMIN \/ subject.teacher_id = current_user.id

SubjectById(subject_id) == FindOne(subjects, LAMBDA s : s.id = subject_id)
CoById(co_id) == FindOne(cos, LAMBDA c : c.id = co_id)
\* A lookup that returns the first PO, whatever its id.
AnyPo(po_id) == FindOne(pos, LAMBDA p : TRUE)
PoById(po_id) == FindOne(pos, LAMBDA p : p.id = po_id)
MappingById(mapping_id) == FindOne(co_po_mappings, LAMBDA m : m.id = mapping_id)
QuestionById(question_id) == FindOne(questions, LAMBDA q : q.id = question_id)

(***************************************************************************)
(* CO handlers.                                                            *)
(***************************************************************************)
\* The request body stored as it came.
UnscopedCo(co_data, subject_id) == co_data

\* co_data.subject_id = subject_id
ScopedCo(co_data, subject_id) == [co_data EXCEPT !.subject_id = subject_id]

create_co(subject_id, co_data, current_user) ==
    LET si == SubjectById(subject_id)
        dup == FindOne(cos, LAMBDA c : c.subject_id = subject_id /\ c.code = co_data.code)
        doc == ScopedCo(co_data, subject_id)
        ins == InsertOneUnique(cos, doc, CoIndexKey)
    IN  IF ~TeacherGate(current_user) THEN Response(403, "Teacher access required", cos)
        ELSE IF ~Found(si) THEN Response(404, "Subject not found", cos)
        ELSE IF ~Allowed(current_user, subjects[si])
            THEN Response(403, "Access denied", cos)
        ELSE IF Found(dup)
            THEN Response(400, "CO code already exists in this subject", cos)
        ELSE IF ~ins.ok THEN ServerError(cos)
        ELSE Response(200, "OK", ins.coll)

\* An update that forces the id only.
KeepIdOnly(data, id, existing) == [data EXCEPT !.id = id]

\* update_co and update_question: data.subject_id = existing["subject_id"] and
\* data.id = <path id>.
KeepIdentity(data, id, existing) ==
    [data EXCEPT !.subject_id = existing.subject_id, !.id = id]

update_co(co_id, co_data, current_user) ==
    LET ci == CoById(co_id)
        existing_co == cos[ci]
        si == SubjectById(existing_co.subject_id)
        dup == FindOne(cos, LAMBDA c : /\ c.subject_id = existing_co.subject_id
                                       /\ c.code = co_data.code
                                       /\ c.id # co_id)
        doc == KeepIdentity(co_data, co_id, existing_co)
        rep == ReplaceOneUnique(cos, ci, doc, CoIndexKey)
    IN  IF ~TeacherGate(current_user) THEN Response(403, "Teacher access required", cos)
        ELSE IF ~Found(ci) THEN Response(404, "CO not found", cos)
        ELSE IF ~Found(si) THEN Response(404, "Subject not found", cos)
        ELSE IF ~Allowed(current_user, subjects[si]) THEN Response(403, "Access denied", cos)
        ELSE IF co_data.code # existing_co.code /\ Found(dup)
            THEN Response(400, "CO code already exists in this subject", cos)
        ELSE IF ~rep.ok THEN ServerError(cos)
        ELSE Response(200, "OK", rep.coll)

\* A dependency check that counts the questions only.
CoInUseByQuestionsOnly(co_id) ==
    CountDocuments(questions, LAMBDA q : q.co_id = co_id) > 0

\* The dependency-closure check of delete_co.
CoInUse(co_id) ==
    LET questions_count == CountDocuments(questions, LAMBDA q : q.co_id = co_id)
        mappings_count == CountDocuments(co_po_mappings, LAMBDA m : m.co_id = co_id)
    IN questions_count > 0 \/ mappings_count > 0

delete_co(co_id, current_user) ==
    LET ci == CoById(co_id)
        existing_co == cos[ci]
        si == SubjectById(existing_co.subject_id)
    IN  IF ~TeacherGate(current_user) THEN Response(403, "Teacher access required", cos)
        ELSE IF ~Found(ci) THEN Response(404, "CO not found", cos)
        ELSE IF ~Found(si) THEN Response(404, "Subject not found", cos)
        ELSE IF ~Allowed(current_user, subjects[si]) THEN Response(403, "Access denied", cos)
        ELSE IF CoInUse(co_id)
            THEN Response(400, "Cannot delete CO. It is being used in questions or PO mappings", cos)
        ELSE Response(200, "CO deleted successfully", DeleteOne(cos, ci))

(***************************************************************************)
(* CO-PO mapping handlers.                                                 *)
(***************************************************************************)
\* A duplicate lookup that also compares the weight.
ExistingMappingWithWeight(co_id, mapping_data) ==
    FindOne(co_po_mappings, LAMBDA m : /\ m.co_id = co_id
                                       /\ m.po_id = mapping_data.po_id
                                       /\ m.weight = mapping_data.weight)

\* The duplicate lookup of create_co_po_mapping.
ExistingMapping(co_id, mapping_data) ==
    FindOne(co_po_mappings, LAMBDA m : m.co_id = co_id /\ m.po_id = mapping_data.po_id)

\* A create that inserts the mapping before it looks for the PO.
insert_before_po_check(co_id, mapping_data, current_user) ==
    LET ci == CoById(co_id)
        co == cos[ci]
        si == SubjectById(co.subject_id)
        pi == PoById(mapping_data.po_id)
        dup == ExistingMapping(co_id, mapping_data)
        doc == [mapping_data EXCEPT !.co_id = co_id]
        ins == InsertOneUnique(co_po_mappings, doc, MappingIndexKey)
    IN  IF ~TeacherGate(current_user)
            THEN Response(403, "Teacher access required", co_po_mappings)
        ELSE IF ~Found(ci) THEN Response(404, "CO not found", co_po_mappings)
        ELSE IF ~Found(si) THEN Response(404, "Subject not found", co_po_mappings)
        ELSE IF ~Allowed(current_user, subjects[si])
            THEN Response(403, "Access denied", co_po_mappings)
        ELSE IF ~ins.ok THEN ServerError(co_po_mappings)
        ELSE IF ~Found(pi) THEN Response(404, "PO not found", ins.coll)
        ELSE IF Found(dup) THEN Response(400, "CO-PO mapping already exists", co_po_mappings)
        ELSE Response(200, "OK", ins.coll)

create_co_po_mapping(co_id, mapping_data, current_user) ==
    LET ci == CoById(co_id)
        co == cos[ci]
        si == SubjectById(co.subject_id)
        pi == PoById(mapping_data.po_id)
        dup == ExistingMapping(co_id, mapping_data)
        doc == [mapping_data EXCEPT !.co_id = co_id]
        ins == InsertOneUnique(co_po_mappings, doc, MappingIndexKey)
    IN  IF ~TeacherGate(current_user)
            THEN Response(403, "Teacher access required", co_po_mappings)
        ELSE IF ~Found(ci) THEN Response(404, "CO not found", co_po_mappings)
        ELSE IF ~Found(si) THEN Response(404, "Subject not found", co_po_mappings)
        ELSE IF ~Allowed(current_user, subjects[si])
            THEN Response(403, "Access denied", co_po_mappings)
        ELSE IF ~Found(pi) THEN Response(404, "PO not found", co_po_mappings)
        ELSE IF Found(dup) THEN Response(400, "CO-PO mapping already exists", co_po_mappings)
        ELSE IF ~ins.ok THEN ServerError(co_po_mappings)
        ELSE Response(200, "OK", ins.coll)

\* A replacement of the whole document by the request body.
ReplaceByBody(coll, mi, mapping_data) == [coll EXCEPT ![mi] = mapping_data]

\* update_one with $set on weight: the other fields, the indexed ones
\* included, do not change.
SetWeight(coll, mi, mapping_data) == [coll EXCEPT ![mi].weight = mapping_data.weight]

\* updated_mapping = find_one({"id": mapping_id}) on the updated collection.
updated_mapping(coll, mapping_id) ==
    LET hits == {i \in 1..Len(coll) : coll[i].id = mapping_id}
    IN IF hits = {} THEN NoBody ELSE coll[Min(hits)]

update_co_po_mapping(mapping_id, mapping_data, current_user) ==
    LET mi == MappingById(mapping_id)
        existing_mapping == co_po_mappings[mi]
        ci == CoById(existing_mapping.co_id)
        co == cos[ci]
        si == SubjectById(co.subject_id)
        upd == SetWeight(co_po_mappings, mi, mapping_data)
    IN  IF ~TeacherGate(current_user)
            THEN Response(403, "Teacher access required", co_po_mappings)
        ELSE IF ~Found(mi) THEN Response(404, "CO-PO mapping not found", co_po_mappings)
        ELSE IF ~Found(ci) THEN Response(404, "CO not found", co_po_mappings)
        ELSE IF ~Found(si) THEN Response(404, "Subject not found", co_po_mappings)
        ELSE IF ~Allowed(current_user, subjects[si])
            THEN Response(403, "Access denied", co_po_mappings)
        ELSE Response(200, "OK", upd)

delete_co_po_mapping(mapping_id, current_user) ==
    LET mi == MappingById(mapping_id)
        existing_mapping == co_po_mappings[mi]
        ci == CoById(existing_mapping.co_id)
        co == cos[ci]
        si == SubjectById(co.subject_id)
    IN  IF ~TeacherGate(current_user)
            THEN Response(403, "Teacher access required", co_po_mappings)
        ELSE IF ~Found(mi) THEN Response(404, "CO-PO mapping not found", co_po_mappings)
        ELSE IF ~Found(ci) THEN Response(404, "CO not found", co_po_mappings)
        ELSE IF ~Found(si) THEN Response(404, "Subject not found", co_po_mappings)
        ELSE IF ~Allowed(current_user, subjects[si])
            THEN Response(403, "Access denied", co_po_mappings)
        ELSE Response(200, "CO-PO mapping deleted successfully", DeleteOne(co_po_mappings, mi))

(***************************************************************************)
(* Question handlers.                                                      *)
(***************************************************************************)
\* The type-specific requirements create_question enforces.
InvalidChoicePayload(question_data) ==
    /\ question_data.type \in {MCQ, MSQ, TRUE_FALSE}
    /\ (~Truthy(question_data.options) \/ ~Truthy(question_data.correct_key))

InvalidNumericPayload(question_data) ==
    /\ question_data.type = NUMERIC
    /\ question_data.correct_key = PyNone

\* A CO lookup by id alone, whatever subject the CO is in.
CoInAnySubject(co_id, subject_id) == CoById(co_id)

\* The CO lookup of create_question and update_question: the CO in this subject.
CoInSubject(co_id, subject_id) ==
    FindOne(cos, LAMBDA c : c.id = co_id /\ c.subject_id = subject_id)

create_question(subject_id, question_data, current_user) ==
    LET si == SubjectById(subject_id)
        ci == CoInSubject(question_data.co_id, subject_id)
        doc == [question_data EXCEPT !.subject_id = subject_id]
        ins == InsertOne(questions, doc)
    IN  IF ~TeacherGate(current_user) THEN Response(403, "Teacher access required", questions)
        ELSE IF ~Found(si) THEN Response(404, "Subject not found", questions)
        ELSE IF ~Allowed(current_user, subjects[si])
            THEN Response(403, "Access denied", questions)
        ELSE IF ~Found(ci) THEN Response(400, "CO not found in this subject", questions)
        ELSE IF InvalidChoicePayload(question_data)
            THEN Response(400, "Options and correct key are required for MCQ/MSQ/True-False questions", questions)
        ELSE IF InvalidNumericPayload(question_data)
            THEN Response(400, "Correct answer is required for numeric questions", questions)
        ELSE Response(200, "OK", ins.coll)

update_question(question_id, question_data, current_user) ==
    LET qi == QuestionById(question_id)
        existing_question == questions[qi]
        si == SubjectById(existing_question.subject_id)
        ci == CoInSubject(question_data.co_id, existing_question.subject_id)
        doc == [KeepIdentity(question_data, question_id, existing_question)
                    EXCEPT !.version = existing_question.version + 1]
        rep == ReplaceOne(questions, qi, doc)
    IN  IF ~TeacherGate(current_user) THEN Response(403, "Teacher access required", questions)
        ELSE IF ~Found(qi) THEN Response(404, "Question not found", questions)
        ELSE IF ~Found(si) THEN Response(404, "Subject not found", questions)
        ELSE IF ~Allowed(current_user, subjects[si])
            THEN Response(403, "Access denied", questions)
        ELSE IF ~Found(ci) THEN Response(400, "CO not found in this subject", questions)
        ELSE Response(200, "OK", rep.coll)

\* A delete that does not look at the exam-question linkages.
delete_question_unchecked(question_id, current_user) ==
    LET qi == QuestionById(question_id)
        existing_question == questions[qi]
        si == SubjectById(existing_question.subject_id)
    IN  IF ~TeacherGate(current_user) THEN Response(403, "Teacher access required", questions)
        ELSE IF ~Found(qi) THEN Response(404, "Question not found", questions)
        ELSE IF ~Found(si) THEN Response(404, "Subject not found", questions)
        ELSE IF ~Allowed(current_user, subjects[si])
            THEN Response(403, "Access denied", questions)
        ELSE Response(200, "Question deleted successfully", DeleteOne(questions, qi))

delete_question(question_id, current_user) ==
    LET qi == QuestionById(question_id)
        existing_question == questions[qi]
        si == SubjectById(existing_question.subject_id)
        exam_questions_count ==
            CountDocuments(exam_questions, LAMBDA e : e.question_id = question_id)
    IN  IF ~TeacherGate(current_user) THEN Response(403, "Teacher access required", questions)
        ELSE IF ~Found(qi) THEN Response(404, "Question not found", questions)
        ELSE IF ~Found(si) THEN Response(404, "Subject not found", questions)
        ELSE IF ~Allowed(current_user, subjects[si])
            THEN Response(403, "Access denied", questions)
        ELSE IF exam_questions_count > 0
            THEN Response(400, "Cannot delete question. It is being used in exams", questions)
        ELSE Response(200, "Question deleted successfully", DeleteOne(questions, qi))

(***************************************************************************)
(* Identity: ids, password hashes and tokens.  A token is the claim set it *)
(* carries; the signature makes it impossible to present a claim set that  *)
(* was never issued.  The clock counts minutes.                            *)
(***************************************************************************)
\* An id generator that hands out one id again and again.
ReusedUuid(n) == "uuid-0"

\* generate_uuid: the n-th id handed out; no two calls return the same id.
Uuid(n) == "uuid-" \o ToString(n)

Hash(password) == <<"bcrypt", password>>
verify_password(password, hashed) == hashed = Hash(password)

JWT_ACCESS_TOKEN_EXPIRE_MINUTES == 30
JWT_REFRESH_TOKEN_EXPIRE_DAYS == 7
AccessLifetime == JWT_ACCESS_TOKEN_EXPIRE_MINUTES
RefreshLifetime == JWT_REFRESH_TOKEN_EXPIRE_DAYS * 24 * 60

\* to_encode = data.copy(); to_encode.update({"exp": expire, "type": type})
\* jwt.encode(to_encode, JWT_SECRET, ...): the claims and, in the entry key,
\* the secret that the signature was made with.
JWT_SECRET == "your-super-secret-jwt-key"

Encode(data, expire, type) ==
    [k \in DOMAIN data \cup {"exp", "type", "key"} |->
        IF k = "exp" THEN expire
        ELSE IF k = "type" THEN type
        ELSE IF k = "key" THEN JWT_SECRET
        ELSE data[k]]

create_access_token(data) == Encode(data, now + AccessLifetime, "access")
create_refresh_token(data) == Encode(data, now + RefreshLifetime, "refresh")

\* A decoder for which no token is young enough.
ExpiredOnIssue(token) == token.exp <= now + RefreshLifetime

\* jwt.decode raises ExpiredSignatureError once exp is not in the future.
Expired(token) == token.exp <= now

\* The claims that jwt.decode returns.
Claims(token) == [k \in DOMAIN token \ {"key"} |-> token[k]]

\* verify_token: the payload, or None for an expired token.  jwt.decode
\* checks the signature before the expiry.  For a signature that does not
\* verify it raises an error that is not ExpiredSignatureError, so the second
\* except clause is evaluated: the module jwt of line 16, whose encode, decode
\* and ExpiredSignatureError the code uses, has no attribute JWTError, and the
\* AttributeError leaves the function.
NoPayload == [type |-> PyNone]
Raised == [type |-> "AttributeError"]
verify_token(token) ==
    IF token.key # JWT_SECRET THEN Raised
    ELSE IF Expired(token) THEN NoPayload
    ELSE Claims(token)

\* The fields of UserResponse.
UserFields == {"id", "email", "role", "last_login_at"}
NeverLoggedIn == 0 - 1

Credentials(status, detail, user) == [status |-> status, detail |-> detail, user |-> user]

\* A token check that accepts a payload of any type.
AnyTokenType(payload, type) == payload = NoPayload

WrongTokenType(payload, type) == payload = NoPayload \/ payload.type # type

\* get_current_user: the stored user the bearer token names.
get_current_user(token) ==
    LET payload == verify_token(token)
        i == FindOne(users, LAMBDA u : u.id = payload.user_id)
    IN  IF payload = Raised
            THEN Credentials(500, "Internal Server Error", NoBody)
        ELSE IF WrongTokenType(payload, "access")
            THEN Credentials(401, "Invalid token", NoBody)
        ELSE IF ~Found(i)
            THEN Credentials(401, "User not found", NoBody)
        ELSE Credentials(200, "OK", users[i])

\* A gate that lets every role through.
AnyRoleGate(current_user) == TRUE

\* get_admin_user: the admin-only gate.
AdminGate(current_user) == current_user.role = SUPER_ADMIN

LoginResponse(user) ==
    [access_token |-> create_access_token([user_id |-> user.id, role |-> user.role]),
     refresh_token |-> create_refresh_token([user_id |-> user.id]),
     user |-> [k \in UserFields |-> user[k]]]

(***************************************************************************)
(* First-run setup handlers.                                               *)
(***************************************************************************)
SetupStatus(admin_id) ==
    [id |-> "setup", is_setup_complete |-> TRUE, setup_step |-> 1, admin_id |-> admin_id]

SetupRecord == FindOne(setup, LAMBDA d : d.id = "setup")

\* A guard that never finds the system initialized.
NeverInitialized(setup_docs) == FALSE

\* The guard of initialize_system: a setup record marked complete is stored.
AlreadyInitialized(setup_docs) ==
    LET i == FindOne(setup_docs, LAMBDA d : d.id = "setup")
    IN Found(i) /\ setup_docs[i].is_setup_complete

\* replace_one(..., upsert=True) on the setup record.
UpsertSetup(setup_docs, doc) ==
    LET i == FindOne(setup_docs, LAMBDA d : d.id = "setup")
    IN IF Found(i) THEN [setup_docs EXCEPT ![i] = doc] ELSE Append(setup_docs, doc)

AdminUser(setup_data, id) ==
    [id |-> id, email |-> setup_data.admin_email, role |-> SUPER_ADMIN,
     hashed_password |-> Hash(setup_data.admin_password),
     last_login_at |-> NeverLoggedIn]

SetupResponse(status, detail, new_users, new_setup, uuids, returned) ==
    [status |-> status, detail |-> detail, users |-> new_users, setup |-> new_setup,
     uuids |-> uuids, returned |-> returned]

initialize_system(setup_data) ==
    LET existing_admin == FindOne(users, LAMBDA u : u.email = setup_data.admin_email)
        admin_user == AdminUser(setup_data, Uuid(next_uuid + 1))
        ins == InsertOneUnique(users, admin_user, UserIndexKey)
        setup_status == SetupStatus(admin_user.id)
    IN  IF AlreadyInitialized(setup)
            THEN SetupResponse(400, "System already initialized", users, setup, 0, NoBody)
        ELSE IF Found(existing_admin)
            THEN SetupResponse(400, "Admin user already exists", users, setup, 0, NoBody)
        ELSE IF ~ins.ok
            THEN SetupResponse(500, "Internal Server Error", users, setup, 1, NoBody)
        ELSE SetupResponse(200, "OK", ins.coll, UpsertSetup(setup, setup_status), 1,
                           LoginResponse(admin_user))

\* An update that stamps every record.
StampEveryUser(coll, id) == [j \in 1..Len(coll) |-> [coll[j] EXCEPT !.last_login_at = now]]

\* update_one({"id": id}, {"$set": {"last_login_at": now}}) on the first match.
UpdateLastLogin(coll, id) ==
    LET i == FindOne(coll, LAMBDA u : u.id = id)
    IN IF Found(i) THEN [coll EXCEPT ![i].last_login_at = now] ELSE coll

\* login: the stored user with that email and password gets tokens.
login(login_data) ==
    LET i == FindOne(users, LAMBDA u : u.email = login_data.email)
    IN  IF ~Found(i) \/ ~verify_password(login_data.password, users[i].hashed_password)
            THEN SetupResponse(400, "Invalid credentials", users, setup, 0, NoBody)
        ELSE SetupResponse(200, "OK", UpdateLastLogin(users, users[i].id), setup, 0,
                           LoginResponse(users[i]))

\* refresh_token: a refresh token of a stored user is exchanged for new tokens.
refresh_token(token) ==
    LET payload == verify_token(token)
        i == FindOne(users, LAMBDA u : u.id = payload.user_id)
    IN  IF payload = Raised
            THEN SetupResponse(500, "Internal Server Error", users, setup, 0, NoBody)
        ELSE IF WrongTokenType(payload, "refresh")
            THEN SetupResponse(401, "Invalid refresh token", users, setup, 0, NoBody)
        ELSE IF ~Found(i)
            THEN SetupResponse(401, "User not found", users, setup, 0, NoBody)
        ELSE SetupResponse(200, "OK", users, setup, 0,
                [access_token |-> create_access_token([user_id |-> users[i].id,
                                                       role |-> users[i].role]),
                 refresh_token |-> create_refresh_token([user_id |-> users[i].id]),
                 token_type |-> "bearer"])

\* A reset that deletes the setup records only.
reset_keeping_users ==
    SetupResponse(200, "Setup reset successfully", users, <<>>, 0, NoBody)

reset_setup ==
    SetupResponse(200, "Setup reset successfully", <<>>, <<>>, 0, NoBody)

\* A status check that reports an orphaned setup record as incomplete and
\* leaves it stored.
get_setup_status_keeping_record ==
    LET si == SetupRecord
        admin_exists == FindOne(users, LAMBDA u : u.role = SUPER_ADMIN)
        incomplete == [is_setup_complete |-> FALSE, setup_step |-> 0]
    IN  IF ~Found(si) \/ ~Found(admin_exists)
            THEN SetupResponse(200, "OK", users, setup, 0, incomplete)
        ELSE SetupResponse(200, "OK", users, setup, 0,
                           [is_setup_complete |-> setup[si].is_setup_complete,
                            setup_step |-> setup[si].setup_step])

get_setup_status ==
    LET si == SetupRecord
        admin_exists == FindOne(users, LAMBDA u : u.role = SUPER_ADMIN)
        incomplete == [is_setup_complete |-> FALSE, setup_step |-> 0]
    IN  IF ~Found(si) THEN SetupResponse(200, "OK", users, setup, 0, incomplete)
        ELSE IF ~Found(admin_exists)
            THEN SetupResponse(200, "OK", users, DeleteOne(setup, si), 0, incomplete)
        ELSE SetupResponse(200, "OK", users, setup, 0,
                           [is_setup_complete |-> setup[si].is_setup_complete,
                            setup_step |-> setup[si].setup_step])

\* A create that does not look for the email and writes to a collection
\* without a unique index.
create_user_any_email(user_data, current_user) ==
    LET new_user == [id |-> Uuid(next_uuid + 1), email |-> user_data.email,
                     role |-> user_data.role,
                     hashed_password |-> Hash(user_data.password),
                     last_login_at |-> NeverLoggedIn]
    IN  IF ~AdminGate(current_user)
            THEN SetupResponse(403, "Admin access required", users, setup, 0, NoBody)
        ELSE SetupResponse(200, "OK", Append(users, new_user), setup, 1,
                           [id |-> new_user.id, email |-> new_user.email, role |-> new_user.role])

create_user(user_data, current_user) ==
    LET existing_user == FindOne(users, LAMBDA u : u.email = user_data.email)
        new_user == [id |-> Uuid(next_uuid + 1), email |-> user_data.email,
                     role |-> user_data.role,
                     hashed_password |-> Hash(user_data.password),
                     last_login_at |-> NeverLoggedIn]
        ins == InsertOneUnique(users, new_user, UserIndexKey)
    IN  IF ~AdminGate(current_user)
            THEN SetupResponse(403, "Admin access required", users, setup, 0, NoBody)
        ELSE IF Found(existing_user)
            THEN SetupResponse(400, "User with this email already exists", users, setup, 0, NoBody)
        ELSE IF ~ins.ok
            THEN SetupResponse(500, "Internal Server Error", users, setup, 1, NoBody)
        ELSE SetupResponse(200, "OK", ins.coll, setup, 1,
                           [id |-> new_user.id, email |-> new_user.email, role |-> new_user.role])

(***************************************************************************)
(* Hierarchy handlers (admin only): departments, programs, courses,        *)
(* subjects, and the POs of a program.  The code has no handler that       *)
(* updates or deletes any of these records.                                *)
(***************************************************************************)
\* A lookup that returns the first department, whatever its id.
AnyDepartment(dept_id) == FindOne(departments, LAMBDA d : TRUE)
DepartmentById(dept_id) == FindOne(departments, LAMBDA d : d.id = dept_id)
ProgramById(program_id) == FindOne(programs, LAMBDA g : g.id = program_id)
CourseById(course_id) == FindOne(courses, LAMBDA c : c.id = course_id)

DepartmentIndexKey(d) == d.code
ProgramIndexKey(d) == d.code
\* A course index on the code alone.
CourseCodeOnlyKey(d) == d.code
CourseIndexKey(d) == <<d.program_id, d.code>>
SubjectIndexKey(d) == <<d.course_id, d.code>>

create_department(dept_data, current_user) ==
    LET existing_dept == FindOne(departments, LAMBDA d : d.code = dept_data.code)
        ins == InsertOneUnique(departments, dept_data, DepartmentIndexKey)
    IN  IF ~AdminGate(current_user) THEN Response(403, "Admin access required", departments)
        ELSE IF Found(existing_dept)
            THEN Response(400, "Department code already exists", departments)
        ELSE IF ~ins.ok THEN ServerError(departments)
        ELSE Response(200, "OK", ins.coll)

create_program(prog_data, current_user) ==
    LET existing_prog == FindOne(programs, LAMBDA g : g.code = prog_data.code)
        dept == DepartmentById(prog_data.dept_id)
        ins == InsertOneUnique(programs, prog_data, ProgramIndexKey)
    IN  IF ~AdminGate(current_user) THEN Response(403, "Admin access required", programs)
        ELSE IF Found(existing_prog) THEN Response(400, "Program code already exists", programs)
        ELSE IF ~Found(dept) THEN Response(400, "Department not found", programs)
        ELSE IF ~ins.ok THEN ServerError(programs)
        ELSE Response(200, "OK", ins.coll)

create_course(course_data, current_user) ==
    LET existing_course == FindOne(courses, LAMBDA c : /\ c.program_id = course_data.program_id
                                                       /\ c.code = course_data.code)
        program == ProgramById(course_data.program_id)
        ins == InsertOneUnique(courses, course_data, CourseIndexKey)
    IN  IF ~AdminGate(current_user) THEN Response(403, "Admin access required", courses)
        ELSE IF Found(existing_course)
            THEN Response(400, "Course code already exists in this program", courses)
        ELSE IF ~Found(program) THEN Response(400, "Program not found", courses)
        ELSE IF ~ins.ok THEN ServerError(courses)
        ELSE Response(200, "OK", ins.coll)

create_subject(subject_data, current_user) ==
    LET existing_subject == FindOne(subjects, LAMBDA x : /\ x.course_id = subject_data.course_id
                                                         /\ x.code = subject_data.code)
        course == CourseById(subject_data.course_id)
        teacher == FindOne(users, LAMBDA u : /\ u.id = subject_data.teacher_id
                                             /\ u.role \in {TEACHER, SUPER_ADMIN})
        ins == InsertOneUnique(subjects, subject_data, SubjectIndexKey)
    IN  IF ~AdminGate(current_user) THEN Response(403, "Admin access required", subjects)
        ELSE IF Found(existing_subject)
            THEN Response(400, "Subject code already exists in this course", subjects)
        ELSE IF ~Found(course) THEN Response(400, "Course not found", subjects)
        ELSE IF ~Found(teacher)
            THEN Response(400, "Teacher not found or invalid role", subjects)
        ELSE IF ~ins.ok THEN ServerError(subjects)
        ELSE Response(200, "OK", ins.coll)

create_po(program_id, po_data, current_user) ==
    LET program == ProgramById(program_id)
        existing_po == FindOne(pos, LAMBDA p : p.program_id = program_id /\ p.code = po_data.code)
        doc == [po_data EXCEPT !.program_id = program_id]
        ins == InsertOneUnique(pos, doc, PoIndexKey)
    IN  IF ~AdminGate(current_user) THEN Response(403, "Admin access required", pos)
        ELSE IF ~Found(program) THEN Response(404, "Program not found", pos)
        ELSE IF Found(existing_po)
            THEN Response(400, "PO code already exists in this program", pos)
        ELSE IF ~ins.ok THEN ServerError(pos)
        ELSE Response(200, "OK", ins.coll)

(***************************************************************************)
(* Sequential specification: every request runs to completion before the   *)
(* next one starts.  The academic hierarchy, the users and the POs are in  *)
(* place; the callers are the stored users.                                *)
(***************************************************************************)
NoRequest == [op |-> "none", caller |-> "-", path |-> "-", body |-> NoBody,
              status |-> 0, detail |-> "-", returned |-> NoBody]

Completed(op, current_user, path, body, r) ==
    [op |-> op, caller |-> current_user.id, path |-> path, body |-> body,
     status |-> r.status, detail |-> r.detail, returned |-> NoBody]

IdleProcs ==
    /\ pc = <<>>
    /\ req = <<>>
    /\ loc = <<>>
    /\ resp = <<>>
    /\ keyed = <<>> /\ tokens = {} /\ now = 0

SeededUsers ==
    << [id |-> "u0", email |-> "admin@x.edu", role |-> SUPER_ADMIN, hashed_password |-> Hash("pw0"),
        last_login_at |-> NeverLoggedIn],
       [id |-> "t1", email |-> "t1@x.edu", role |-> TEACHER, hashed_password |-> Hash("pw1"),
        last_login_at |-> NeverLoggedIn],
       [id |-> "t2", email |-> "t2@x.edu", role |-> TEACHER, hashed_password |-> Hash("pw2"),
        last_login_at |-> NeverLoggedIn],
       [id |-> "st", email |-> "st@x.edu", role |-> STUDENT, hashed_password |-> Hash("pw3"),
        last_login_at |-> NeverLoggedIn] >>

SeededDepartments == << [id |-> "d1", code |-> "DEP1"] >>

SeededPrograms ==
    << [id |-> "g1", dept_id |-> "d1", code |-> "PRG1"],
       [id |-> "g2", dept_id |-> "d1", code |-> "PRG2"] >>

SeededCourses == << [id |-> "c1", program_id |-> "g1", code |-> "CRS1"] >>

SeededSubjects ==
    << [id |-> "s1", course_id |-> "c1", code |-> "SUB1", teacher_id |-> "t1"],
       [id |-> "s2", course_id |-> "c1", code |-> "SUB2", teacher_id |-> "t2"] >>

SeededPos ==
    << [id |-> "p1", program_id |-> "g1", code |-> "PO1"] >>

\* Request inputs of the sequential specifications.
PathSubjectIds == {"s1", "s2", "s9"}
CoIds == {"co1", "co2"}
CoCodes == {"CO1", "CO2"}

ChoiceQuestion(id, co_id) ==
    [id |-> id, subject_id |-> "s1", co_id |-> co_id, version |-> 1,
     type |-> MCQ, options |-> "dict:{A,B}", correct_key |-> "str:A"]

\* Spec: every CO, mapping and question mutation, with one body shape each.
CoBodies == [id : {"co1"}, subject_id : {"s1"}, code : {"CO1"}]
MappingBodies == [id : {"m1"}, co_id : {"co1"}, po_id : {"p1"}, weight : {1, 3}]
QuestionBodies == {ChoiceQuestion("q1", c) : c \in CoIds}

Callers == {users[i] : i \in 1..Len(users)}

CreateCO(current_user, subject_id, co_data) ==
    LET r == create_co(subject_id, co_data, current_user)
    IN  /\ r.status = 200 => Len(cos) < MaxCOs
        /\ cos' = r.coll
        /\ last' = Completed("create_co", current_user, subject_id, co_data, r)
        /\ UNCHANGED <<users, subjects, pos, co_po_mappings, questions, exam_questions,
                       setup, next_uuid, hierVars, procVars>>

UpdateCO(current_user, co_id, co_data) ==
    LET r == update_co(co_id, co_data, current_user)
    IN  /\ cos' = r.coll
        /\ last' = Completed("update_co", current_user, co_id, co_data, r)
        /\ UNCHANGED <<users, subjects, pos, co_po_mappings, questions, exam_questions,
                       setup, next_uuid, hierVars, procVars>>

DeleteCO(current_user, co_id) ==
    LET r == delete_co(co_id, current_user)
    IN  /\ cos' = r.coll
        /\ last' = Completed("delete_co", current_user, co_id, NoBody, r)
        /\ UNCHANGED <<users, subjects, pos, co_po_mappings, questions, exam_questions,
                       setup, next_uuid, hierVars, procVars>>

CreateMapping(current_user, co_id, mapping_data) ==
    LET r == create_co_po_mapping(co_id, mapping_data, current_user)
    IN  /\ r.status = 200 => Len(co_po_mappings) < MaxMappings
        /\ co_po_mappings' = r.coll
        /\ last' = Completed("create_co_po_mapping", current_user, co_id, mapping_data, r)
        /\ UNCHANGED <<users, subjects, pos, cos, questions, exam_questions,
                       setup, next_uuid, hierVars, procVars>>

UpdateMapping(current_user, mapping_id, mapping_data) ==
    LET r == update_co_po_mapping(mapping_id, mapping_data, current_user)
    IN  /\ co_po_mappings' = r.coll
        /\ last' = [Completed("update_co_po_mapping", current_user, mapping_id, mapping_data, r)
                        EXCEPT !.returned = IF r.status = 200
                                            THEN updated_mapping(r.coll, mapping_id)
                                            ELSE NoBody]
        /\ UNCHANGED <<users, subjects, pos, cos, questions, exam_questions,
                       setup, next_uuid, hierVars, procVars>>

DeleteMapping(current_user, mapping_id) ==
    LET r == delete_co_po_mapping(mapping_id, current_user)
    IN  /\ co_po_mappings' = r.coll
        /\ last' = Completed("delete_co_po_mapping", current_user, mapping_id, NoBody, r)
        /\ UNCHANGED <<users, subjects, pos, cos, questions, exam_questions,
                       setup, next_uuid, hierVars, procVars>>

CreateQuestion(current_user, subject_id, question_data) ==
    LET r == create_question(subject_id, question_data, current_user)
    IN  /\ r.status = 200 => Len(questions) < MaxQuestions
        /\ questions' = r.coll
        /\ last' = Completed("create_question", current_user, subject_id, question_data, r)
        /\ UNCHANGED <<users, subjects, pos, cos, co_po_mappings, exam_questions,
                       setup, next_uuid, hierVars, procVars>>

UpdateQuestion(current_user, question_id, question_data) ==
    LET r == update_question(question_id, question_data, current_user)
    IN  /\ r.status = 200 => questions[QuestionById(question_id)].version < MaxVersion
        /\ questions' = r.coll
        /\ last' = Completed("update_question", current_user, question_id, question_data, r)
        /\ UNCHANGED <<users, subjects, pos, cos, co_po_mappings, exam_questions,
                       setup, next_uuid, hierVars, procVars>>

DeleteQuestion(current_user, question_id) ==
    LET r == delete_question(question_id, current_user)
    IN  /\ questions' = r.coll
        /\ last' = Completed("delete_question", current_user, question_id, NoBody, r)
        /\ UNCHANGED <<users, subjects, pos, cos, co_po_mappings, exam_questions,
                       setup, next_uuid, hierVars, procVars>>

Init ==
    /\ users = SeededUsers
    /\ departments = SeededDepartments
    /\ programs = SeededPrograms
    /\ courses = SeededCourses
    /\ subjects = SeededSubjects
    /\ pos = SeededPos
    /\ cos = <<>>
    /\ co_po_mappings = <<>>
    /\ questions = <<>>
    /\ exam_questions = <<>>
    /\ setup = <<SetupStatus("u0")>>
    /\ next_uuid = 0
    /\ last = NoRequest
    /\ IdleProcs

Next ==
    \/ \E u \in Callers, s \in PathSubjectIds, b \in CoBodies : CreateCO(u, s, b)
    \/ \E u \in Callers, c \in CoIds, b \in CoBodies : UpdateCO(u, c, b)
    \/ \E u \in Callers, c \in CoIds : DeleteCO(u, c)
    \/ \E u \in Callers, c \in CoIds, b \in MappingBodies : CreateMapping(u, c, b)
    \/ \E u \in Callers, b \in MappingBodies : UpdateMapping(u, b.id, b)
    \/ \E u \in Callers, b \in MappingBodies : DeleteMapping(u, b.id)
    \/ \E u \in Callers, s \in PathSubjectIds, b \in QuestionBodies : CreateQuestion(u, s, b)
    \/ \E u \in Callers, b \in QuestionBodies : UpdateQuestion(u, b.id, b)
    \/ \E u \in Callers, b \in QuestionBodies : DeleteQuestion(u, b.id)

Spec == Init /\ [][Next]_vars

(***************************************************************************)
(* SpecCO: the CO handlers on subject s1 with two CO ids and two codes, and *)
(* the mapping and question creations and deletions that add and remove    *)
(* references to COs.                                                      *)
(***************************************************************************)
SubjectIdsCO == {"s1"}
CoBodiesCO == [id : CoIds, subject_id : {"s1"}, code : CoCodes]
MappingBodiesCO == [id : {"m1"}, co_id : {"co1"}, po_id : {"p1"}, weight : {2}]

NextCO ==
    \/ \E u \in Callers, s \in SubjectIdsCO, b \in CoBodiesCO : CreateCO(u, s, b)
    \/ \E u \in Callers, c \in CoIds, b \in CoBodiesCO : UpdateCO(u, c, b)
    \/ \E u \in Callers, c \in CoIds : DeleteCO(u, c)
    \/ \E u \in Callers, c \in CoIds, b \in MappingBodiesCO : CreateMapping(u, c, b)
    \/ \E u \in Callers, b \in MappingBodiesCO : DeleteMapping(u, b.id)
    \/ \E u \in Callers, s \in SubjectIdsCO, b \in QuestionBodies : CreateQuestion(u, s, b)
    \/ \E u \in Callers, b \in QuestionBodies : DeleteQuestion(u, b.id)

SpecCO == Init /\ [][NextCO]_vars

(***************************************************************************)
(* SpecScope: the CO and question handlers, with COs of two ids in two     *)
(* subjects, and questions naming either CO.                               *)
(***************************************************************************)
OwnedSubjectIds == {"s1", "s2"}
CoBodiesScope == [id : CoIds, subject_id : {"s1"}, code : {"CO1"}]
QuestionBodiesScope == QuestionBodies \cup {ChoiceQuestion("q2", c) : c \in CoIds}

NextScope ==
    \/ \E u \in Callers, s \in OwnedSubjectIds, b \in CoBodiesScope : CreateCO(u, s, b)
    \/ \E u \in Callers, c \in CoIds, b \in CoBodiesScope : UpdateCO(u, c, b)
    \/ \E u \in Callers, c \in CoIds : DeleteCO(u, c)
    \/ \E u \in Callers, s \in OwnedSubjectIds, b \in QuestionBodies : CreateQuestion(u, s, b)
    \/ \E u \in Callers, b \in QuestionBodiesScope : UpdateQuestion(u, "q1", b)
    \/ \E u \in Callers, b \in QuestionBodies : DeleteQuestion(u, b.id)

SpecScope == Init /\ [][NextScope]_vars

(***************************************************************************)
(* SpecMapping: the mapping handlers with two mapping ids, bodies whose id, *)
(* co_id and po_id differ from the path and from the stored mapping, a PO  *)
(* id that is not stored, and the creation and deletion of COs.            *)
(***************************************************************************)
MappingIds == {"m1", "m2"}
MappingBodiesM ==
    { [id |-> i, co_id |-> cp[1], po_id |-> cp[2], weight |-> w] :
        i \in MappingIds, cp \in {<<"co1", "p1">>, <<"co2", "p2">>}, w \in {1, 3} }

\* The callers who pass the role gate.
Staff == {u \in Callers : u.role # STUDENT}

NextMapping ==
    \/ \E u \in Staff, s \in OwnedSubjectIds, b \in CoBodiesScope : CreateCO(u, s, b)
    \/ \E u \in Staff, c \in CoIds : DeleteCO(u, c)
    \/ \E u \in Staff, c \in CoIds, b \in MappingBodiesM : CreateMapping(u, c, b)
    \/ \E u \in Staff, m \in MappingIds, b \in MappingBodiesM : UpdateMapping(u, m, b)
    \/ \E u \in Staff, m \in MappingIds : DeleteMapping(u, m)

SpecMapping == Init /\ [][NextMapping]_vars

(***************************************************************************)
(* SpecCreate: the four scoped creations, with bodies whose scope field    *)
(* differs from the path parameter.                                        *)
(***************************************************************************)
ProgramIds == {"g1", "g2"}
CoBodiesSpoofed == [id : {"co1"}, subject_id : OwnedSubjectIds, code : {"CO1"}]
PoBodiesSpoofed == [id : {"p2"}, program_id : ProgramIds, code : {"PO1"}]
MappingBodiesSpoofed == [id : {"m1"}, co_id : {"co1", "co9"}, po_id : {"p1", "p2"}, weight : {2}]
QuestionBodiesSpoofed ==
    { [ChoiceQuestion("q1", "co1") EXCEPT !.subject_id = s] : s \in OwnedSubjectIds }

CreatePO(current_user, program_id, po_data) ==
    LET r == create_po(program_id, po_data, current_user)
    IN  /\ r.status = 200 => Len(pos) < MaxPOs
        /\ pos' = r.coll
        /\ last' = Completed("create_po", current_user, program_id, po_data, r)
        /\ UNCHANGED <<users, subjects, cos, co_po_mappings, questions, exam_questions,
                       setup, next_uuid, hierVars, procVars>>

NextCreate ==
    \/ \E u \in Callers, s \in OwnedSubjectIds, b \in CoBodiesSpoofed : CreateCO(u, s, b)
    \/ \E u \in Callers, g \in ProgramIds, b \in PoBodiesSpoofed : CreatePO(u, g, b)
    \/ \E u \in Callers, b \in MappingBodiesSpoofed : CreateMapping(u, "co1", b)
    \/ \E u \in Callers, s \in OwnedSubjectIds, b \in QuestionBodiesSpoofed :
          CreateQuestion(u, s, b)

SpecCreate == Init /\ [][NextCreate]_vars

(***************************************************************************)
(* SpecQuestion: create_co and the question handlers, with question        *)
(* payloads of several types, valid and invalid.                           *)
(***************************************************************************)
QuestionPayloads ==
    { <<MCQ, "dict:{A,B}", "str:A">>, <<MCQ, PyNone, "str:A">>, <<MCQ, "dict:{A,B}", PyNone>>,
      <<MSQ, "dict:{A,B}", "list:[]">>, <<TRUE_FALSE, "dict:{}", "str:A">>,
      <<NUMERIC, PyNone, PyNone>>, <<NUMERIC, PyNone, "float:0.0">>,
      <<SHORT, PyNone, PyNone>> }

QuestionBodiesQ ==
    { [id |-> "q1", subject_id |-> "s1", co_id |-> "co1", version |-> 1,
       type |-> p[1], options |-> p[2], correct_key |-> p[3]] : p \in QuestionPayloads }

NextQuestion ==
    \/ \E u \in Callers, s \in OwnedSubjectIds, b \in CoBodies : CreateCO(u, s, b)
    \/ \E u \in Callers, s \in PathSubjectIds, b \in QuestionBodiesQ : CreateQuestion(u, s, b)
    \/ \E u \in Callers, b \in QuestionBodiesQ : UpdateQuestion(u, b.id, b)
    \/ \E u \in Callers, b \in QuestionBodiesQ : DeleteQuestion(u, b.id)

SpecQuestion == Init /\ [][NextQuestion]_vars

(***************************************************************************)
(* SpecSetup: the first-run setup handlers and create_user, one request at *)
(* a time, from a fresh store.                                             *)
(***************************************************************************)
Emails == {"a@x.edu", "b@x.edu"}
SetupRequests == [admin_email : Emails, admin_password : {"Passw0rd"}]
UserCreates == [email : Emails \cup {"c@x.edu"}, role : UserRole, password : {"Passw0rd"}]

CompletedSetupOp(op, caller, body, r) ==
    [op |-> op, caller |-> caller, path |-> "-", body |-> body,
     status |-> r.status, detail |-> r.detail, returned |-> r.returned]

\* The tokens a response hands to the client.
Issued(r) ==
    IF r.status = 200 /\ "access_token" \in DOMAIN r.returned
    THEN {r.returned.access_token, r.returned.refresh_token}
    ELSE {}

SetupEffect(op, caller, body, r) ==
    /\ next_uuid + r.uuids <= MaxUuids
    /\ Len(r.users) > Len(users) => Len(r.users) <= MaxUsers
    /\ users' = r.users
    /\ setup' = r.setup
    /\ next_uuid' = next_uuid + r.uuids
    /\ last' = CompletedSetupOp(op, caller, body, r)
    /\ tokens' = tokens \cup Issued(r)
    /\ UNCHANGED <<subjects, pos, cos, co_po_mappings, questions, exam_questions,
                   hierVars, pc, req, loc, resp, keyed, now>>

Initialize(setup_data) ==
    SetupEffect("initialize_system", "-", setup_data, initialize_system(setup_data))

ResetSetup == SetupEffect("reset_setup", "-", NoBody, reset_setup)

GetSetupStatus == SetupEffect("get_setup_status", "-", NoBody, get_setup_status)

CreateUser(current_user, user_data) ==
    SetupEffect("create_user", current_user.id, user_data, create_user(user_data, current_user))

InitFresh ==
    /\ users = <<>>
    /\ departments = <<>>
    /\ programs = <<>>
    /\ courses = <<>>
    /\ subjects = <<>>
    /\ pos = <<>>
    /\ cos = <<>>
    /\ co_po_mappings = <<>>
    /\ questions = <<>>
    /\ exam_questions = <<>>
    /\ setup = <<>>
    /\ next_uuid = 0
    /\ last = NoRequest
    /\ IdleProcs

NextSetup ==
    \/ \E d \in SetupRequests : Initialize(d)
    \/ ResetSetup
    \/ GetSetupStatus
    \/ \E u \in Callers, d \in UserCreates : CreateUser(u, d)

SpecSetup == InitFresh /\ [][NextSetup]_vars

(***************************************************************************)
(* SpecInit: concurrent requests on a fresh store, every store access a    *)
(* separate atomic step.  Two clients call initialize_system; a third      *)
(* client logs in and then asks for the setup status; a fourth calls       *)
(* reset_setup.                                                            *)
(***************************************************************************)
Initializers == {"init1", "init2"}
Observer == "observer"
Resetter == "resetter"
InitProcs == Initializers \cup {Observer, Resetter}

Pending == [status |-> 0, detail |-> "-"]
ObserverPending == [login |-> 0, is_setup_complete |-> FALSE]

Goto(p, label) == pc' = [pc EXCEPT ![p] = label]
Reply(p, r) == resp' = [resp EXCEPT ![p] = r] /\ Goto(p, "done")

seqVars == <<departments, programs, courses, subjects, pos, cos, co_po_mappings,
            questions, exam_questions, last, keyed, tokens, now>>

\* initialize_system: setup = await db.setup.find_one({"id": "setup"})
InitFindSetup(p) ==
    /\ p \in Initializers /\ pc[p] = "find_setup"
    /\ IF AlreadyInitialized(setup)
       THEN Reply(p, [status |-> 400, detail |-> "System already initialized"])
       ELSE Goto(p, "find_admin") /\ UNCHANGED resp
    /\ UNCHANGED <<users, setup, next_uuid, req, loc, seqVars>>

\* initialize_system: existing_admin = await db.users.find_one({"email": ...}),
\* then the User object is built with a generated id.
InitFindAdmin(p) ==
    /\ p \in Initializers /\ pc[p] = "find_admin"
    /\ IF Found(FindOne(users, LAMBDA u : u.email = req[p].admin_email))
       THEN /\ Reply(p, [status |-> 400, detail |-> "Admin user already exists"])
            /\ UNCHANGED <<loc, next_uuid>>
       ELSE /\ loc' = [loc EXCEPT ![p] = AdminUser(req[p], Uuid(next_uuid + 1))]
            /\ next_uuid' = next_uuid + 1
            /\ Goto(p, "insert_user")
            /\ UNCHANGED resp
    /\ UNCHANGED <<users, setup, req, seqVars>>

\* initialize_system: await db.users.insert_one(admin_user.dict())
InitInsertUser(p) ==
    /\ p \in Initializers /\ pc[p] = "insert_user"
    /\ LET ins == InsertOneUnique(users, loc[p], UserIndexKey)
       IN IF ins.ok
          THEN users' = ins.coll /\ Goto(p, "replace_setup") /\ UNCHANGED resp
          ELSE /\ Reply(p, [status |-> 500, detail |-> "Internal Server Error"])
               /\ UNCHANGED users
    /\ UNCHANGED <<setup, next_uuid, req, loc, seqVars>>

\* initialize_system: await db.setup.replace_one({"id": "setup"}, ..., upsert=True)
InitReplaceSetup(p) ==
    /\ p \in Initializers /\ pc[p] = "replace_setup"
    /\ setup' = UpsertSetup(setup, SetupStatus(loc[p].id))
    /\ Reply(p, [status |-> 200, detail |-> "OK"])
    /\ UNCHANGED <<users, next_uuid, req, loc, seqVars>>

\* login: user = await db.users.find_one({"email": ...}) and verify_password
LoginFindUser(p) ==
    /\ p = Observer /\ pc[p] = "login_find"
    /\ LET i == FindOne(users, LAMBDA u : u.email = req[p].email)
       IN IF ~Found(i) \/ ~verify_password(req[p].password, users[i].hashed_password)
          THEN /\ resp' = [resp EXCEPT ![p].login = 400]
               /\ Goto(p, "status_find_setup")
               /\ UNCHANGED loc
          ELSE /\ loc' = [loc EXCEPT ![p] = users[i]]
               /\ Goto(p, "login_update")
               /\ UNCHANGED resp
    /\ UNCHANGED <<users, setup, next_uuid, req, seqVars>>

\* login: await db.users.update_one(..., {"$set": {"last_login_at": ...}}); the
\* client then calls GET /setup/status.
LoginUpdate(p) ==
    /\ p = Observer /\ pc[p] = "login_update"
    /\ users' = UpdateLastLogin(users, loc[p].id)
    /\ resp' = [resp EXCEPT ![p].login = 200]
    /\ Goto(p, "status_find_setup")
    /\ UNCHANGED <<setup, next_uuid, req, loc, seqVars>>

\* get_setup_status: setup = await db.setup.find_one({"id": "setup"})
StatusFindSetup(p) ==
    /\ p = Observer /\ pc[p] = "status_find_setup"
    /\ IF ~Found(SetupRecord)
       THEN /\ resp' = [resp EXCEPT ![p].is_setup_complete = FALSE]
            /\ Goto(p, "done")
            /\ UNCHANGED loc
       ELSE /\ loc' = [loc EXCEPT ![p] = setup[SetupRecord]]
            /\ Goto(p, "status_find_admin")
            /\ UNCHANGED resp
    /\ UNCHANGED <<users, setup, next_uuid, req, seqVars>>

\* get_setup_status: admin_exists = await db.users.find_one({"role": SUPER_ADMIN})
StatusFindAdmin(p) ==
    /\ p = Observer /\ pc[p] = "status_find_admin"
    /\ IF ~Found(FindOne(users, LAMBDA u : u.role = SUPER_ADMIN))
       THEN Goto(p, "status_delete") /\ UNCHANGED resp
       ELSE /\ resp' = [resp EXCEPT ![p].is_setup_complete = loc[p].is_setup_complete]
            /\ Goto(p, "done")
    /\ UNCHANGED <<users, setup, next_uuid, req, loc, seqVars>>

\* get_setup_status: await db.setup.delete_one({"id": "setup"})
StatusDelete(p) ==
    /\ p = Observer /\ pc[p] = "status_delete"
    /\ setup' = IF Found(SetupRecord) THEN DeleteOne(setup, SetupRecord) ELSE setup
    /\ resp' = [resp EXCEPT ![p].is_setup_complete = FALSE]
    /\ Goto(p, "done")
    /\ UNCHANGED <<users, next_uuid, req, loc, seqVars>>

\* reset_setup: await db.setup.delete_many({})
ResetDeleteSetup(p) ==
    /\ p = Resetter /\ pc[p] = "delete_setup"
    /\ setup' = <<>>
    /\ Goto(p, "delete_users")
    /\ UNCHANGED <<users, next_uuid, req, loc, resp, seqVars>>

\* reset_setup: await db.users.delete_many({})
ResetDeleteUsers(p) ==
    /\ p = Resetter /\ pc[p] = "delete_users"
    /\ users' = <<>>
    /\ Reply(p, [status |-> 200, detail |-> "Setup reset successfully"])
    /\ UNCHANGED <<setup, next_uuid, req, loc, seqVars>>

InitConcurrentSetup ==
    /\ users = <<>>
    /\ departments = <<>>
    /\ programs = <<>>
    /\ courses = <<>>
    /\ subjects = <<>>
    /\ pos = <<>>
    /\ cos = <<>>
    /\ co_po_mappings = <<>>
    /\ questions = <<>>
    /\ exam_questions = <<>>
    /\ setup = <<>>
    /\ next_uuid = 0
    /\ last = NoRequest
    /\ keyed = <<>> /\ tokens = {} /\ now = 0
    /\ pc = [p \in InitProcs |->
                IF p \in Initializers THEN "find_setup"
                ELSE IF p = Observer THEN "login_find" ELSE "delete_setup"]
    /\ \E d1 \in SetupRequests, d2 \in SetupRequests, e \in Emails :
          req = [p \in InitProcs |->
                    IF p = "init1" THEN d1
                    ELSE IF p = "init2" THEN d2
                    ELSE IF p = Observer THEN [email |-> e, password |-> "Passw0rd"]
                    ELSE NoBody]
    /\ loc = [p \in InitProcs |-> NoBody]
    /\ resp = [p \in InitProcs |-> IF p = Observer THEN ObserverPending ELSE Pending]

NextInit ==
    \E p \in InitProcs :
        \/ InitFindSetup(p)
        \/ InitFindAdmin(p)
        \/ InitInsertUser(p)
        \/ InitReplaceSetup(p)
        \/ LoginFindUser(p)
        \/ LoginUpdate(p)
        \/ StatusFindSetup(p)
        \/ StatusFindAdmin(p)
        \/ StatusDelete(p)
        \/ ResetDeleteSetup(p)
        \/ ResetDeleteUsers(p)

SpecInit == InitConcurrentSetup /\ [][NextInit]_vars

(***************************************************************************)
(* SpecConc: two concurrent create requests of one kind, issued by an      *)
(* administrator, every store access a separate atomic step.  keyed is the *)
(* collection the two requests insert into.  A document is reduced to its  *)
(* id and the two fields its unique index is built from:                   *)
(*   kind        parent       code                                         *)
(*   user        -            email                                        *)
(*   department  -            code                                         *)
(*   program     dept_id      code                                         *)
(*   course      program_id   code                                         *)
(*   subject     course_id    code                                         *)
(*   co          subject_id   code                                         *)
(*   po          program_id   code                                         *)
(*   mapping     co_id        po_id                                        *)
(* The collections the lookups of parents read are not written by these    *)
(* requests: the parents in ExistingParents exist throughout.              *)
(***************************************************************************)
CreateKinds == {"user", "department", "program", "course", "subject", "co", "po", "mapping"}

\* The kinds whose unique index covers the parent as well as the code.
ScopedKinds == {"course", "subject", "co", "po", "mapping"}

\* No collection has a unique index.
NoUniqueIndexes == {}

\* startup_event: the collections created with a unique index.
UniqueIndexes == CreateKinds

\* startup_event: the key of the unique index of each collection.
IndexKey(kind, d) == IF kind \in ScopedKinds THEN <<d.parent, d.code>> ELSE <<d.code>>

\* The filter of the handler's own find_one for an existing record.
DuplicateFilter(kind, data, d) ==
    IF kind \in ScopedKinds
    THEN d.parent = data.parent /\ d.code = data.code
    ELSE d.code = data.code

\* The store accesses of each create handler, in the order it makes them.
Steps(kind) ==
    CASE kind \in {"user", "department"} -> <<"find_duplicate", "insert_one">>
      [] kind \in {"program", "course"} -> <<"find_duplicate", "find_parent", "insert_one">>
      [] kind = "subject" -> <<"find_duplicate", "find_parent", "find_parent", "insert_one">>
      [] kind \in {"co", "po"} -> <<"find_parent", "find_duplicate", "insert_one">>
      [] kind = "mapping" ->
            <<"find_parent", "find_parent", "find_parent", "find_duplicate", "insert_one">>

DuplicateDetail(kind) ==
    CASE kind = "user" -> "User with this email already exists"
      [] kind = "department" -> "Department code already exists"
      [] kind = "program" -> "Program code already exists"
      [] kind = "course" -> "Course code already exists in this program"
      [] kind = "subject" -> "Subject code already exists in this course"
      [] kind = "co" -> "CO code already exists in this subject"
      [] kind = "po" -> "PO code already exists in this program"
      [] kind = "mapping" -> "CO-PO mapping already exists"

ParentMissing(kind) ==
    CASE kind = "program" -> [status |-> 400, detail |-> "Department not found"]
      [] kind = "course" -> [status |-> 400, detail |-> "Program not found"]
      [] kind = "subject" -> [status |-> 400, detail |-> "Course not found"]
      [] kind = "co" -> [status |-> 404, detail |-> "Subject not found"]
      [] kind = "po" -> [status |-> 404, detail |-> "Program not found"]
      [] kind = "mapping" -> [status |-> 404, detail |-> "CO not found"]

Creators == {"c1", "c2"}
ExistingParents == {"a", "b"}
CreateRequests ==
    { [parent |-> "a", code |-> "X"], [parent |-> "a", code |-> "Y"],
      [parent |-> "b", code |-> "X"], [parent |-> "z", code |-> "X"] }
\* The parent field of a kind that has none.
ParentOf(kind, parent) == IF kind \in {"user", "department"} THEN "-" ELSE parent
StoredBefore(kind) ==
    { <<>>, <<[id |-> "id-0", parent |-> ParentOf(kind, "a"), code |-> "X"]>> }

\* The request moves on to its next store access, or to its response.
Advance(p) ==
    LET n == loc[p].step + 1
    IN /\ loc' = [loc EXCEPT ![p].step = n]
       /\ Goto(p, Steps(req[p].kind)[n])

concVars == <<users, departments, programs, courses, subjects, pos, cos, co_po_mappings,
              questions, exam_questions,
              setup, next_uuid, last, tokens, now>>

\* existing = await db.<collection>.find_one({<the scoped key>})
CreateFindDuplicate(p) ==
    /\ p \in Creators /\ pc[p] = "find_duplicate"
    /\ IF Found(FindOne(keyed, LAMBDA d : DuplicateFilter(req[p].kind, req[p], d)))
       THEN /\ Reply(p, [status |-> 400, detail |-> DuplicateDetail(req[p].kind)])
            /\ UNCHANGED loc
       ELSE Advance(p) /\ UNCHANGED resp
    /\ UNCHANGED <<keyed, req, concVars>>

\* parent = await db.<parents>.find_one({"id": ...})
CreateFindParent(p) ==
    /\ p \in Creators /\ pc[p] = "find_parent"
    /\ IF req[p].parent \notin ExistingParents
       THEN Reply(p, ParentMissing(req[p].kind)) /\ UNCHANGED loc
       ELSE Advance(p) /\ UNCHANGED resp
    /\ UNCHANGED <<keyed, req, concVars>>

\* await db.<collection>.insert_one(data.dict())
CreateInsertOne(p) ==
    /\ p \in Creators /\ pc[p] = "insert_one"
    /\ LET kind == req[p].kind
           doc == [id |-> req[p].id, parent |-> req[p].parent, code |-> req[p].code]
           ins == IF kind \in UniqueIndexes
                  THEN InsertOneUnique(keyed, doc, LAMBDA d : IndexKey(kind, d))
                  ELSE InsertOne(keyed, doc)
       IN IF ins.ok
          THEN keyed' = ins.coll /\ Reply(p, [status |-> 200, detail |-> "OK"])
          ELSE /\ Reply(p, [status |-> 500, detail |-> "Internal Server Error"])
               /\ UNCHANGED keyed
    /\ UNCHANGED <<req, loc, concVars>>

InitConcurrentCreates ==
    /\ users = <<>>
    /\ departments = <<>>
    /\ programs = <<>>
    /\ courses = <<>>
    /\ subjects = <<>>
    /\ pos = <<>>
    /\ cos = <<>>
    /\ co_po_mappings = <<>>
    /\ questions = <<>>
    /\ exam_questions = <<>>
    /\ setup = <<>>
    /\ next_uuid = 0
    /\ last = NoRequest
    /\ \E kind \in CreateKinds, d1 \in CreateRequests, d2 \in CreateRequests :
          /\ keyed \in StoredBefore(kind)
          /\ tokens = {} /\ now = 0
          /\ req = [p \in Creators |->
                       [kind |-> kind,
                        id |-> "id-" \o p,
                        parent |-> ParentOf(kind, IF p = "c1" THEN d1.parent ELSE d2.parent),
                        code |-> IF p = "c1" THEN d1.code ELSE d2.code]]
          /\ pc = [p \in Creators |-> Steps(kind)[1]]
    /\ loc = [p \in Creators |-> [step |-> 1]]
    /\ resp = [p \in Creators |-> Pending]

NextConc ==
    \E p \in Creators :
        \/ CreateFindDuplicate(p)
        \/ CreateFindParent(p)
        \/ CreateInsertOne(p)

SpecConc == InitConcurrentCreates /\ [][NextConc]_vars

(***************************************************************************)
(* Claims about the sequential specifications.  In a step, last' is the    *)
(* request that the step completed, the unprimed collections are the store *)
(* before the request and the primed ones the store after it.              *)
(***************************************************************************)
UserOf(user_id) == users[FindOne(users, LAMBDA u : u.id = user_id)]

SubjectScopedOps == {"create_co", "create_question"}
CoScopedOps == {"update_co", "delete_co", "create_co_po_mapping"}
MappingScopedOps == {"update_co_po_mapping", "delete_co_po_mapping"}
QuestionScopedOps == {"update_question", "delete_question"}

\* The id of the subject that the record addressed by the path of a request
\* belongs to in the store, "-" when the path resolves to no record.
SubjectIdOfCo(co_id) ==
    IF Found(CoById(co_id)) THEN cos[CoById(co_id)].subject_id ELSE "-"

AddressedSubjectId(op, path) ==
    IF op \in SubjectScopedOps THEN path
    ELSE IF op \in CoScopedOps THEN SubjectIdOfCo(path)
    ELSE IF op \in MappingScopedOps
        THEN IF Found(MappingById(path))
             THEN SubjectIdOfCo(co_po_mappings[MappingById(path)].co_id)
             ELSE "-"
    ELSE IF op \in QuestionScopedOps
        THEN IF Found(QuestionById(path))
             THEN questions[QuestionById(path)].subject_id
             ELSE "-"
    ELSE "-"

\* The completed request was made by a TEACHER on an existing subject, or on an
\* existing record under a subject, whose teacher_id is not the caller's id.
TeacherOnForeignSubject(r, sid) ==
    /\ UserOf(r.caller).role = TEACHER
    /\ Found(SubjectById(sid))
    /\ subjects[SubjectById(sid)].teacher_id # r.caller

\* C1: a TEACHER who is not the teacher of subject S gets 403 from each of the
\* nine CO / mapping / question mutations aimed at S or at an existing record
\* under S, and the request leaves every collection unchanged.
C1_ForeignTeacherForbidden ==
    [][ TeacherOnForeignSubject(last', AddressedSubjectId(last'.op, last'.path))
            => /\ last'.status = 403
               /\ last'.detail = "Access denied"
               /\ UNCHANGED storeVars ]_vars

\* C1 witness: a teacher was refused the deletion of a stored question of
\* another teacher's subject.
C1_Witness ==
    /\ last.op = "delete_question"
    /\ last.status = 403
    /\ TeacherOnForeignSubject(last, AddressedSubjectId(last.op, last.path))

\* The caller of a completed request is an admin or the teacher of subject sid.
AdminOrTeacherOf(r, sid) ==
    \/ UserOf(r.caller).role = SUPER_ADMIN
    \/ /\ UserOf(r.caller).role = TEACHER
       /\ Found(SubjectById(sid))
       /\ subjects[SubjectById(sid)].teacher_id = r.caller

ReferencedByQuestion(co_id) == \E i \in 1..Len(questions) : questions[i].co_id = co_id
ReferencedByMapping(co_id) ==
    \E i \in 1..Len(co_po_mappings) : co_po_mappings[i].co_id = co_id
Referenced(co_id) == ReferencedByQuestion(co_id) \/ ReferencedByMapping(co_id)

InUseDetail == "Cannot delete CO. It is being used in questions or PO mappings"

\* C2: delete_co of a stored CO that a stored question or a stored CO-PO mapping
\* references (by co_id) fails and leaves every collection unchanged, with InUse
\* (400) once the caller has passed the role and ownership checks that come
\* first; a delete_co removes a CO only when no question and no mapping
\* references it, and then it removes exactly the addressed CO.
C2_DeleteCoInUse ==
    [][ last'.op = "delete_co" =>
          /\ (Found(CoById(last'.path)) /\ Referenced(last'.path))
                => /\ last'.status \in {400, 403}
                   /\ UNCHANGED storeVars
                   /\ AdminOrTeacherOf(last', SubjectIdOfCo(last'.path))
                        => (last'.status = 400 /\ last'.detail = InUseDetail)
          /\ (cos' # cos)
                => /\ ~Referenced(last'.path)
                   /\ last'.status = 200
                   /\ cos' = DeleteOne(cos, CoById(last'.path))
                   /\ UNCHANGED <<users, subjects, pos, co_po_mappings, questions,
                                  exam_questions, setup>>
          /\ (/\ Found(CoById(last'.path))
              /\ ~Referenced(last'.path)
              /\ AdminOrTeacherOf(last', SubjectIdOfCo(last'.path)))
                => (last'.status = 200 /\ Len(cos') = Len(cos) - 1) ]_vars

\* C2 witness: the teacher of the subject was refused the deletion of a CO
\* that a stored mapping references and no question references.
C2_Witness ==
    /\ last.op = "delete_co"
    /\ last.status = 400
    /\ last.detail = InUseDetail
    /\ UserOf(last.caller).role = TEACHER
    /\ Found(CoById(last.path))
    /\ ReferencedByMapping(last.path)
    /\ ~ReferencedByQuestion(last.path)

NoTwoCosShareCode ==
    \A i, j \in 1..Len(cos) :
        (i # j /\ cos[i].subject_id = cos[j].subject_id) => cos[i].code # cos[j].code

DuplicateCodeDetail == "CO code already exists in this subject"

CodeHeldInSubject(subject_id, code) ==
    \E i \in 1..Len(cos) : cos[i].subject_id = subject_id /\ cos[i].code = code

\* Another record than the addressed one (document ci) holds the code in its subject.
CodeHeldByOtherRecord(ci, code) ==
    \E j \in 1..Len(cos) :
        j # ci /\ cos[j].subject_id = cos[ci].subject_id /\ cos[j].code = code

\* C3: no two stored COs of one subject have the same code; a create_co whose
\* code is already used in the subject, and an update_co that changes the code
\* to one held by a different CO record of the same subject, made by a caller
\* who passes the role and ownership checks, fail with DuplicateCode (400) and
\* store nothing.
C3_CoCodesUnique ==
    [][ /\ NoTwoCosShareCode'
        /\ (/\ last'.op = "create_co"
            /\ AdminOrTeacherOf(last', last'.path)
            /\ Found(SubjectById(last'.path))
            /\ CodeHeldInSubject(last'.path, last'.body.code))
              => /\ last'.status = 400
                 /\ last'.detail = DuplicateCodeDetail
                 /\ UNCHANGED storeVars
        /\ (/\ last'.op = "update_co"
            /\ Found(CoById(last'.path))
            /\ AdminOrTeacherOf(last', SubjectIdOfCo(last'.path))
            /\ last'.body.code # cos[CoById(last'.path)].code
            /\ CodeHeldByOtherRecord(CoById(last'.path), last'.body.code))
              => /\ last'.status = 400
                 /\ last'.detail = DuplicateCodeDetail
                 /\ UNCHANGED storeVars ]_vars

\* Every stored question names, by co_id, a stored CO of the question's subject.
QuestionCoInScope ==
    \A i \in 1..Len(questions) :
        \E j \in 1..Len(cos) :
            /\ cos[j].id = questions[i].co_id
            /\ cos[j].subject_id = questions[i].subject_id

CoBelongsTo(co_id, subject_id) ==
    \E j \in 1..Len(cos) : cos[j].id = co_id /\ cos[j].subject_id = subject_id

InvalidCoScopeDetail == "CO not found in this subject"

\* C9: after any sequence of CO and question creations, updates and deletions,
\* every stored question's co_id identifies a stored CO whose subject_id is the
\* question's subject_id; a create_question whose co_id is no CO of the path
\* subject, and an update_question whose co_id is no CO of the stored
\* question's subject, made by a caller who passes the role and ownership
\* checks, fail with InvalidCOScope (400) and store nothing.
C9_QuestionCoScope ==
    [][ /\ QuestionCoInScope'
        /\ (/\ last'.op = "create_question"
            /\ Found(SubjectById(last'.path))
            /\ AdminOrTeacherOf(last', last'.path)
            /\ ~CoBelongsTo(last'.body.co_id, last'.path))
              => /\ last'.status = 400
                 /\ last'.detail = InvalidCoScopeDetail
                 /\ UNCHANGED storeVars
        /\ (/\ last'.op = "update_question"
            /\ Found(QuestionById(last'.path))
            /\ AdminOrTeacherOf(last', questions[QuestionById(last'.path)].subject_id)
            /\ ~CoBelongsTo(last'.body.co_id, questions[QuestionById(last'.path)].subject_id))
              => /\ last'.status = 400
                 /\ last'.detail = InvalidCoScopeDetail
                 /\ UNCHANGED storeVars ]_vars

\* C9 witness: an update_question naming a stored CO of another subject was
\* refused with InvalidCOScope, and the stored question kept a CO of its subject.
C9_Witness ==
    /\ last.op = "update_question"
    /\ last.status = 400
    /\ last.detail = InvalidCoScopeDetail
    /\ Found(CoById(last.body.co_id))
    /\ Found(QuestionById(last.path))
    /\ QuestionCoInScope

\* The type-specific validity of a stored question.
PayloadValid(q) ==
    /\ q.type \in {MCQ, MSQ, TRUE_FALSE}
          => (q.options \notin {PyNone, "dict:{}"} /\ q.correct_key # PyNone)
    /\ q.type = NUMERIC => q.correct_key # PyNone

\* C10: after any sequence of create_question and update_question calls, every
\* stored MCQ, MSQ or TRUE_FALSE question has non-empty options and a non-null
\* correct_key, and every stored NUMERIC question has a non-null correct_key.
C10_StoredQuestionsValid ==
    \A i \in 1..Len(questions) : PayloadValid(questions[i])

AlreadyInitializedDetail == "System already initialized"

SuperAdmins == {i \in 1..Len(users) : users[i].role = SUPER_ADMIN}

\* C8: on a fresh store initialize_system succeeds, stores exactly one user,
\* of role SUPER_ADMIN, and a setup record marked complete, and returns an
\* access and a refresh token for that user; an initialize_system issued while
\* a completed setup record is stored fails with AlreadyInitialized (400) and
\* changes nothing, whatever admin email it carries.
C8_InitializeOnce ==
    [][ last'.op = "initialize_system" =>
          /\ (users = <<>> /\ setup = <<>>)
                => /\ last'.status = 200
                   /\ Len(users') = 1
                   /\ users'[1].role = SUPER_ADMIN
                   /\ users'[1].email = last'.body.admin_email
                   /\ setup' = <<SetupStatus(users'[1].id)>>
                   /\ last'.returned.access_token.user_id = users'[1].id
                   /\ last'.returned.access_token.role = SUPER_ADMIN
                   /\ last'.returned.access_token.type = "access"
                   /\ last'.returned.refresh_token.user_id = users'[1].id
                   /\ last'.returned.refresh_token.type = "refresh"
                   /\ last'.returned.user.role = SUPER_ADMIN
          /\ (\E i \in 1..Len(setup) : setup[i].is_setup_complete)
                => /\ last'.status = 400
                   /\ last'.detail = AlreadyInitializedDetail
                   /\ UNCHANGED <<storeVars, next_uuid>> ]_vars

\* C8 witness: after a successful initialize_system, a later one carrying
\* another admin email was refused with AlreadyInitialized.
C8_Witness ==
    /\ last.op = "initialize_system"
    /\ last.status = 400
    /\ last.detail = AlreadyInitializedDetail
    /\ Cardinality(SuperAdmins) = 1
    /\ Len(users) = 1
    /\ users[1].email # last.body.admin_email
    /\ setup = <<SetupStatus(users[1].id)>>

(***************************************************************************)
(* Claims about the concurrent setup requests (SpecInit).                  *)
(***************************************************************************)
ResetNotStarted == pc[Resetter] = "delete_setup"

InitializersDone == \A p \in Initializers : pc[p] = "done"

\* C6: two initialize_system requests running concurrently on a store with no
\* completed setup record (the same or different admin emails, no reset
\* running): exactly one of them succeeds, creating the one SUPER_ADMIN user and
\* the completed setup record, and the other answers AlreadyInitialized (400)
\* and creates no user.
C6_OneInitializerWins ==
    (InitializersDone /\ ResetNotStarted) =>
        /\ \E p \in Initializers :
              /\ resp[p].status = 200
              /\ \A q \in Initializers \ {p} :
                    /\ resp[q].status = 400
                    /\ resp[q].detail = AlreadyInitializedDetail
        /\ Cardinality(SuperAdmins) = 1
        /\ Len(users) = 1
        /\ AlreadyInitialized(setup)

\* C7: initialize_system is atomic for a concurrent observer: a client whose
\* login as the new admin succeeded (the admin user was stored) is not told
\* afterwards by GET /setup/status that setup is not complete (no reset running).
C7_NoHalfInitializedView ==
    (pc[Observer] = "done" /\ ResetNotStarted /\ resp[Observer].login = 200)
        => resp[Observer].is_setup_complete = TRUE

(***************************************************************************)
(* Claims about the concurrent create requests (SpecConc).                 *)
(***************************************************************************)
SameScopedKey == IndexKey(req["c1"].kind, req["c1"]) = IndexKey(req["c2"].kind, req["c2"])

Inserted(p) == \E i \in 1..Len(keyed) : keyed[i].id = req[p].id

\* C4: of two concurrent create requests with the same scoped key at most one
\* inserts a record: the two never both succeed, and the collection never holds
\* two records with that key.
C4_AtMostOneInserts ==
    SameScopedKey =>
        /\ ~(Inserted("c1") /\ Inserted("c2"))
        /\ ~(resp["c1"].status = 200 /\ resp["c2"].status = 200)
        /\ CountDocuments(keyed, LAMBDA d : IndexKey(req["c1"].kind, d)
                                            = IndexKey(req["c1"].kind, req["c1"])) <= 1

\* C4 witness: both requests passed their own duplicate check on an empty
\* collection, one inserted and the store refused the insert of the other.
C4_Witness ==
    /\ SameScopedKey
    /\ \A p \in Creators : pc[p] = "done"
    /\ resp["c1"].status = 200
    /\ resp["c2"].status = 500
    /\ Inserted("c1") /\ ~Inserted("c2")
    /\ Len(keyed) = 1

\* C5: of two concurrent create requests with the same scoped key (and an
\* existing parent), a request that does not insert completes with the
\* duplicate error of its kind, status 400, in every interleaving.
C5_LoserGetsDuplicateError ==
    \A p \in Creators :
        (/\ SameScopedKey
         /\ req[p].kind \in {"user", "department"} \/ req[p].parent \in ExistingParents
         /\ pc[p] = "done"
         /\ ~Inserted(p))
            => /\ resp[p].status = 400
               /\ resp[p].detail = DuplicateDetail(req[p].kind)

(***************************************************************************)
(* Claims about the question payload checks (SpecQuestion).                *)
(***************************************************************************)
InvalidPayloadDetails ==
    { "Options and correct key are required for MCQ/MSQ/True-False questions",
      "Correct answer is required for numeric questions" }

\* C11: a create_question that passes the subject, ownership and CO-scope
\* checks fails with InvalidPayload (400), storing nothing, exactly when the
\* type is MCQ, MSQ or TRUE_FALSE and options is null or empty or correct_key
\* is null, or the type is NUMERIC and correct_key is null; in every other
\* case (an empty or zero correct_key included) it succeeds and stores the
\* question under the path subject.
C11_InvalidPayloadIff ==
    [][ (/\ last'.op = "create_question"
         /\ Found(SubjectById(last'.path))
         /\ AdminOrTeacherOf(last', last'.path)
         /\ CoBelongsTo(last'.body.co_id, last'.path))
            => IF ~PayloadValid(last'.body)
               THEN /\ last'.status = 400
                    /\ last'.detail \in InvalidPayloadDetails
                    /\ UNCHANGED storeVars
               ELSE /\ last'.status = 200
                    /\ questions' = Append(questions,
                                           [last'.body EXCEPT !.subject_id = last'.path]) ]_vars

(***************************************************************************)
(* Claims about the CO-PO mappings (SpecMapping).                          *)
(***************************************************************************)
NoTwoMappingsSharePair ==
    \A i, j \in 1..Len(co_po_mappings) :
        (co_po_mappings[i].co_id = co_po_mappings[j].co_id
         /\ co_po_mappings[i].po_id = co_po_mappings[j].po_id) => i = j

PairStored(co_id, po_id) ==
    \E i \in 1..Len(co_po_mappings) :
        co_po_mappings[i].co_id = co_id /\ co_po_mappings[i].po_id = po_id

DuplicateMappingDetail == "CO-PO mapping already exists"

\* C12: after any sequence of mapping creations, updates and deletions no two
\* stored mappings have the same (co_id, po_id) pair; a create_co_po_mapping
\* for a pair that is already stored stores nothing, whatever its weight, and
\* answers DuplicateMapping (400) once the CO, ownership and PO checks pass.
C12_MappingPairsUnique ==
    [][ /\ NoTwoMappingsSharePair'
        /\ (/\ last'.op = "create_co_po_mapping"
            /\ PairStored(last'.path, last'.body.po_id))
              => /\ last'.status # 200
                 /\ UNCHANGED storeVars
                 /\ (/\ Found(CoById(last'.path))
                     /\ AdminOrTeacherOf(last', SubjectIdOfCo(last'.path))
                     /\ Found(PoById(last'.body.po_id)))
                       => /\ last'.status = 400
                          /\ last'.detail = DuplicateMappingDetail ]_vars

\* C12 witness: a second create for a stored pair, carrying another weight,
\* was refused with DuplicateMapping.
C12_Witness ==
    /\ last.op = "create_co_po_mapping"
    /\ last.status = 400
    /\ last.detail = DuplicateMappingDetail
    /\ \E i \in 1..Len(co_po_mappings) :
          /\ co_po_mappings[i].co_id = last.path
          /\ co_po_mappings[i].po_id = last.body.po_id
          /\ co_po_mappings[i].weight # last.body.weight

\* C13: a successful update_co_po_mapping changes the weight of the addressed
\* mapping (the first stored mapping with the path id) and nothing else, and
\* returns that stored mapping with the new weight, whatever id, co_id and
\* po_id the body carries.
C13_UpdateMappingWeightOnly ==
    [][ (last'.op = "update_co_po_mapping" /\ last'.status = 200)
          => LET mi == MappingById(last'.path)
             IN /\ Found(mi)
                /\ co_po_mappings' =
                      [co_po_mappings EXCEPT ![mi].weight = last'.body.weight]
                /\ co_po_mappings'[mi].id = co_po_mappings[mi].id
                /\ co_po_mappings'[mi].co_id = co_po_mappings[mi].co_id
                /\ co_po_mappings'[mi].po_id = co_po_mappings[mi].po_id
                /\ last'.returned = co_po_mappings'[mi]
                /\ last'.returned.weight = last'.body.weight
                /\ UNCHANGED <<users, hierVars, subjects, pos, cos, questions,
                               exam_questions, setup>> ]_vars

\* C13 witness: a successful update whose body carried another id, co_id and
\* po_id than the stored mapping.
C13_Witness ==
    /\ last.op = "update_co_po_mapping"
    /\ last.status = 200
    /\ last.body.id # last.path
    /\ last.returned.co_id # last.body.co_id
    /\ last.returned.po_id # last.body.po_id
    /\ last.returned.weight = 3
    /\ Len(co_po_mappings) = 2

PoStored(po_id) == \E i \in 1..Len(pos) : pos[i].id = po_id

MappingReferentsExist ==
    \A i \in 1..Len(co_po_mappings) :
        /\ Found(CoById(co_po_mappings[i].co_id))
        /\ PoStored(co_po_mappings[i].po_id)

\* C14: every stored mapping's co_id is the id of a stored CO and its po_id
\* the id of a stored PO, after every operation; a create_co_po_mapping whose
\* path CO or body PO is not stored stores nothing and answers NotFound (404)
\* once the checks made before that lookup pass.
C14_MappingReferentsExist ==
    [][ /\ MappingReferentsExist'
        /\ (/\ last'.op = "create_co_po_mapping"
            /\ ~Found(CoById(last'.path)) \/ ~PoStored(last'.body.po_id))
              => /\ last'.status # 200
                 /\ UNCHANGED storeVars
        /\ (/\ last'.op = "create_co_po_mapping"
            /\ TeacherGate(UserOf(last'.caller))
            /\ ~Found(CoById(last'.path)))
              => last'.status = 404 /\ last'.detail = "CO not found"
        /\ (/\ last'.op = "create_co_po_mapping"
            /\ Found(CoById(last'.path))
            /\ AdminOrTeacherOf(last', SubjectIdOfCo(last'.path))
            /\ ~PoStored(last'.body.po_id))
              => last'.status = 404 /\ last'.detail = "PO not found" ]_vars

\* C14 witness: with a mapping stored, a create naming a PO that is not stored
\* was refused with NotFound, and a delete_co of the referenced CO was refused.
C14_Witness ==
    /\ last.op = "create_co_po_mapping"
    /\ last.status = 404
    /\ last.detail = "PO not found"
    /\ Found(CoById(last.path))
    /\ Len(co_po_mappings) > 0

(***************************************************************************)
(* Claims about the scoped creations (SpecCreate).                         *)
(***************************************************************************)
PoCodeHeldInProgram(program_id, code) ==
    \E i \in 1..Len(pos) : pos[i].program_id = program_id /\ pos[i].code = code

ProgramStored(program_id) == \E i \in 1..Len(programs) : programs[i].id = program_id

\* C15: every successful scoped create stores the body with its scope field
\* set to the path parameter (create_co: subject_id, create_po: program_id,
\* create_co_po_mapping: co_id, create_question: subject_id), whatever the body
\* carries, and the authorization and duplicate checks it passed are those of
\* the path scope.
C15_ScopeForcedFromPath ==
    [][ /\ (last'.op = "create_co" /\ last'.status = 200)
              => /\ cos' = Append(cos, [last'.body EXCEPT !.subject_id = last'.path])
                 /\ AdminOrTeacherOf(last', last'.path)
                 /\ ~CodeHeldInSubject(last'.path, last'.body.code)
        /\ (last'.op = "create_po" /\ last'.status = 200)
              => /\ pos' = Append(pos, [last'.body EXCEPT !.program_id = last'.path])
                 /\ UserOf(last'.caller).role = SUPER_ADMIN
                 /\ ProgramStored(last'.path)
                 /\ ~PoCodeHeldInProgram(last'.path, last'.body.code)
        /\ (last'.op = "create_co_po_mapping" /\ last'.status = 200)
              => /\ co_po_mappings' =
                        Append(co_po_mappings, [last'.body EXCEPT !.co_id = last'.path])
                 /\ AdminOrTeacherOf(last', SubjectIdOfCo(last'.path))
                 /\ ~PairStored(last'.path, last'.body.po_id)
        /\ (last'.op = "create_question" /\ last'.status = 200)
              => /\ questions' =
                        Append(questions, [last'.body EXCEPT !.subject_id = last'.path])
                 /\ AdminOrTeacherOf(last', last'.path)
                 /\ CoBelongsTo(last'.body.co_id, last'.path) ]_vars

\* C15 witness: a teacher created a CO in the own subject with a body naming
\* the other subject, where that other subject already held the code; a PO
\* and a mapping are stored under path scopes their bodies did not name.
C15_Witness ==
    /\ last.op = "create_co"
    /\ last.status = 200
    /\ UserOf(last.caller).role = TEACHER
    /\ last.body.subject_id # last.path
    /\ CodeHeldInSubject(last.body.subject_id, last.body.code)
    /\ cos[Len(cos)].subject_id = last.path
    /\ \E i \in 1..Len(pos) : pos[i].id = "p2" /\ pos[i].program_id = "g2"
    /\ \E i \in 1..Len(co_po_mappings) : co_po_mappings[i].co_id = "co1"

(***************************************************************************)
(* Reads.  A read answers with the documents it returns and writes nothing.*)
(***************************************************************************)
Returned(status, detail, returned) ==
    [status |-> status, detail |-> detail, returned |-> returned]

\* The JSON array a list handler returns.
Items(documents) == [items |-> documents]

\* cursor.to_list(length): the first length documents of the cursor.
ToList(cursor, length) ==
    IF Len(cursor) <= length THEN cursor ELSE SubSeq(cursor, 1, length)

\* db.cos.find({"subject_id": subject_id}).to_list(1000)
find_cos(coll, subject_id) ==
    ToList(SelectSeq(coll, LAMBDA c : c.subject_id = subject_id), ListLimit)

\* A query parameter that was sent and is not empty (Python truthiness).
Given(param) == param \notin {PyNone, ""}

\* A query that removes what it returns (find_one_and_delete).
AfterQueryDeleting(coll) == IF coll = <<>> THEN coll ELSE Tail(coll)

\* The collection after find / find_one: a query writes nothing.
AfterQuery(coll) == coll

\* UserResponse(**user): the user without its password hash.
UserResponse(user) == [k \in UserFields |-> user[k]]

get_current_user_info(current_user) == Returned(200, "OK", UserResponse(current_user))

list_users(current_user) ==
    IF ~AdminGate(current_user) THEN Returned(403, "Admin access required", NoBody)
    ELSE LET found == ToList(users, ListLimit)
         IN  Returned(200, "OK", Items([i \in 1..Len(found) |-> UserResponse(found[i])]))

list_departments(current_user) ==
    Returned(200, "OK", Items(ToList(departments, ListLimit)))

list_programs(dept_id, current_user) ==
    Returned(200, "OK",
             Items(ToList(SelectSeq(programs,
                                    LAMBDA g : Given(dept_id) => g.dept_id = dept_id),
                          ListLimit)))

list_courses(program_id, current_user) ==
    Returned(200, "OK",
             Items(ToList(SelectSeq(courses,
                                    LAMBDA c : Given(program_id) => c.program_id = program_id),
                          ListLimit)))

get_course(course_id, current_user) ==
    IF ~Found(CourseById(course_id)) THEN Returned(404, "Course not found", NoBody)
    ELSE Returned(200, "OK", courses[CourseById(course_id)])

list_subjects(course_id, teacher_id, current_user) ==
    Returned(200, "OK",
             Items(ToList(SelectSeq(subjects,
                                    LAMBDA x : /\ Given(course_id) => x.course_id = course_id
                                               /\ Given(teacher_id) => x.teacher_id = teacher_id),
                          ListLimit)))

get_subject(subject_id, current_user) ==
    IF ~Found(SubjectById(subject_id)) THEN Returned(404, "Subject not found", NoBody)
    ELSE Returned(200, "OK", subjects[SubjectById(subject_id)])

\* The role test of list_subject_cos ends in `pass`: every authenticated
\* user may list.
list_subject_cos(subject_id, current_user) ==
    IF ~Found(SubjectById(subject_id)) THEN Returned(404, "Subject not found", NoBody)
    ELSE Returned(200, "OK", Items(find_cos(cos, subject_id)))

list_program_pos(program_id, current_user) ==
    IF ~Found(ProgramById(program_id)) THEN Returned(404, "Program not found", NoBody)
    ELSE Returned(200, "OK",
                  Items(ToList(SelectSeq(pos, LAMBDA p : p.program_id = program_id),
                               ListLimit)))

list_co_po_mappings(co_id, current_user) ==
    IF ~Found(CoById(co_id)) THEN Returned(404, "CO not found", NoBody)
    ELSE Returned(200, "OK",
                  Items(ToList(SelectSeq(co_po_mappings, LAMBDA m : m.co_id = co_id),
                               ListLimit)))

\* A query parameter holding text: whether it was sent, and its characters.
Unsent == [sent |-> FALSE, text |-> <<>>]
GivenText(param) == param.sent /\ param.text # <<>>

\* str.split(","): the pieces between the commas.
RECURSIVE Split(_)
Split(text) ==
    IF \A i \in 1..Len(text) : text[i] # ","
    THEN <<text>>
    ELSE LET k == CHOOSE i \in 1..Len(text) :
                      text[i] = "," /\ \A j \in 1..(i - 1) : text[j] # ","
         IN <<SubSeq(text, 1, k - 1)>> \o Split(SubSeq(text, k + 1, Len(text)))

\* str.strip(): without the blanks at both ends.
RECURSIVE Strip(_)
Strip(text) ==
    IF text # <<>> /\ Head(text) = " " THEN Strip(Tail(text))
    ELSE IF text # <<>> /\ text[Len(text)] = " " THEN Strip(SubSeq(text, 1, Len(text) - 1))
    ELSE text

\* tag_list = [tag.strip() for tag in tags.split(",")]
TagList(tags) == LET pieces == Split(tags.text) IN [i \in 1..Len(pieces) |-> Strip(pieces[i])]

\* {"tags": {"$in": tag_list}} on an array field: some element is in the list.
TagsIn(q, tag_list) ==
    \E i \in 1..Len(q.tags), j \in 1..Len(tag_list) : q.tags[i] = tag_list[j]

\* The query list_subject_questions builds from the parameters it was given.
QuestionQuery(q, subject_id, type, difficulty, co_id, tags) ==
    /\ q.subject_id = subject_id
    /\ Given(type) => q.type = type
    /\ Given(difficulty) => q.difficulty = difficulty
    /\ Given(co_id) => q.co_id = co_id
    /\ GivenText(tags) => TagsIn(q, TagList(tags))

list_subject_questions(subject_id, type, difficulty, co_id, tags, current_user) ==
    LET si == SubjectById(subject_id)
    IN  IF ~TeacherGate(current_user) THEN Returned(403, "Teacher access required", NoBody)
        ELSE IF ~Found(si) THEN Returned(404, "Subject not found", NoBody)
        ELSE IF ~Allowed(current_user, subjects[si])
            THEN Returned(403, "Access denied", NoBody)
        ELSE Returned(200, "OK",
                      Items(ToList(SelectSeq(questions,
                                LAMBDA q : QuestionQuery(q, subject_id, type, difficulty,
                                                         co_id, tags)),
                                   ListLimit)))

get_question(question_id, current_user) ==
    LET qi == QuestionById(question_id)
        si == SubjectById(questions[qi].subject_id)
    IN  IF ~TeacherGate(current_user) THEN Returned(403, "Teacher access required", NoBody)
        ELSE IF ~Found(qi) THEN Returned(404, "Question not found", NoBody)
        ELSE IF ~Found(si) THEN Returned(404, "Subject not found", NoBody)
        ELSE IF ~Allowed(current_user, subjects[si])
            THEN Returned(403, "Access denied", NoBody)
        ELSE Returned(200, "OK", questions[qi])

CompletedRead(op, current_user, path, query, r) ==
    [op |-> op, caller |-> current_user.id, path |-> path, body |-> query,
     status |-> r.status, detail |-> r.detail, returned |-> r.returned]

\* A read is answered.  resp keeps the answer to the request before it when
\* that request was the same read, and is empty otherwise.
Answer(op, current_user, path, query, r) ==
    /\ last' = CompletedRead(op, current_user, path, query, r)
    /\ resp' = IF /\ last.op = op /\ last.caller = current_user.id
                  /\ last.path = path /\ last.body = query
                  THEN last ELSE NoRequest
    /\ users' = AfterQuery(users)
    /\ UNCHANGED <<setup, exam_questions, next_uuid, pc, req, loc, keyed, tokens, now>>

GetCurrentUserInfo(current_user) ==
    /\ Answer("get_current_user_info", current_user, "-", NoBody,
              get_current_user_info(current_user))
    /\ UNCHANGED <<hierVars, subjects, pos, cos, co_po_mappings, questions>>

ListUsers(current_user) ==
    /\ Answer("list_users", current_user, "-", NoBody, list_users(current_user))
    /\ UNCHANGED <<hierVars, subjects, pos, cos, co_po_mappings, questions>>

ListDepartments(current_user) ==
    /\ Answer("list_departments", current_user, "-", NoBody, list_departments(current_user))
    /\ departments' = AfterQuery(departments)
    /\ UNCHANGED <<programs, courses, subjects, pos, cos, co_po_mappings, questions>>

ListPrograms(current_user, dept_id) ==
    /\ Answer("list_programs", current_user, "-", [dept_id |-> dept_id],
              list_programs(dept_id, current_user))
    /\ programs' = AfterQuery(programs)
    /\ UNCHANGED <<departments, courses, subjects, pos, cos, co_po_mappings, questions>>

ListCourses(current_user, program_id) ==
    /\ Answer("list_courses", current_user, "-", [program_id |-> program_id],
              list_courses(program_id, current_user))
    /\ courses' = AfterQuery(courses)
    /\ UNCHANGED <<departments, programs, subjects, pos, cos, co_po_mappings, questions>>

GetCourse(current_user, course_id) ==
    /\ Answer("get_course", current_user, course_id, NoBody,
              get_course(course_id, current_user))
    /\ courses' = AfterQuery(courses)
    /\ UNCHANGED <<departments, programs, subjects, pos, cos, co_po_mappings, questions>>

ListSubjects(current_user, course_id, teacher_id) ==
    /\ Answer("list_subjects", current_user, "-",
              [course_id |-> course_id, teacher_id |-> teacher_id],
              list_subjects(course_id, teacher_id, current_user))
    /\ subjects' = AfterQuery(subjects)
    /\ UNCHANGED <<hierVars, pos, cos, co_po_mappings, questions>>

GetSubject(current_user, subject_id) ==
    /\ Answer("get_subject", current_user, subject_id, NoBody,
              get_subject(subject_id, current_user))
    /\ subjects' = AfterQuery(subjects)
    /\ UNCHANGED <<hierVars, pos, cos, co_po_mappings, questions>>

ListCOs(current_user, subject_id) ==
    /\ Answer("list_subject_cos", current_user, subject_id, NoBody,
              list_subject_cos(subject_id, current_user))
    /\ subjects' = AfterQuery(subjects)
    /\ cos' = AfterQuery(cos)
    /\ UNCHANGED <<hierVars, pos, co_po_mappings, questions>>

ListPOs(current_user, program_id) ==
    /\ Answer("list_program_pos", current_user, program_id, NoBody,
              list_program_pos(program_id, current_user))
    /\ programs' = AfterQuery(programs)
    /\ pos' = AfterQuery(pos)
    /\ UNCHANGED <<departments, courses, subjects, cos, co_po_mappings, questions>>

ListMappings(current_user, co_id) ==
    /\ Answer("list_co_po_mappings", current_user, co_id, NoBody,
              list_co_po_mappings(co_id, current_user))
    /\ cos' = AfterQuery(cos)
    /\ co_po_mappings' = AfterQuery(co_po_mappings)
    /\ UNCHANGED <<hierVars, subjects, pos, questions>>

ListQuestions(current_user, subject_id, type, co_id) ==
    /\ Answer("list_subject_questions", current_user, subject_id,
              [type |-> type, co_id |-> co_id],
              list_subject_questions(subject_id, type, PyNone, co_id, Unsent, current_user))
    /\ subjects' = AfterQuery(subjects)
    /\ questions' = AfterQuery(questions)
    /\ UNCHANGED <<hierVars, pos, cos, co_po_mappings>>

GetQuestion(current_user, question_id) ==
    /\ Answer("get_question", current_user, question_id, NoBody,
              get_question(question_id, current_user))
    /\ subjects' = AfterQuery(subjects)
    /\ questions' = AfterQuery(questions)
    /\ UNCHANGED <<hierVars, pos, cos, co_po_mappings>>

(***************************************************************************)
(* Create-then-list round trip of COs (SpecList), from stores of a few     *)
(* sizes up to the length the list handlers ask the driver for.            *)
(***************************************************************************)
\* target_level is in hundredths.
StoredCo(i) ==
    [id |-> "co-" \o ToString(i), subject_id |-> "s1", code |-> "CO" \o ToString(i),
     description |-> "Stored outcome", bloom_level |-> "Apply", target_level |-> 60]

StoredCos(n) == [i \in 1..n |-> StoredCo(i)]

StoredSizes == {ListLimit - 1, ListLimit}

CoBodiesListed ==
    [id : {"n1"}, subject_id : {"s2"}, code : {"N1", "N2"},
     description : {"Submitted outcome"}, bloom_level : {"Analyze"}, target_level : {75}]

CreateListedCO(current_user, subject_id, co_data) ==
    LET r == create_co(subject_id, co_data, current_user)
    IN  /\ cos' = r.coll
        /\ last' = Completed("create_co", current_user, subject_id, co_data, r)
        /\ UNCHANGED <<users, subjects, pos, co_po_mappings, questions, exam_questions,
                       setup, next_uuid, hierVars, procVars>>

InitListed ==
    /\ users = SeededUsers
    /\ departments = SeededDepartments
    /\ programs = SeededPrograms
    /\ courses = SeededCourses
    /\ subjects = SeededSubjects
    /\ pos = SeededPos
    /\ cos \in {StoredCos(n) : n \in StoredSizes}
    /\ co_po_mappings = <<>>
    /\ questions = <<>>
    /\ exam_questions = <<>>
    /\ setup = <<>>
    /\ next_uuid = 0
    /\ last = NoRequest
    /\ resp = NoRequest
    /\ pc = <<>> /\ req = <<>> /\ loc = <<>> /\ keyed = <<>> /\ tokens = {} /\ now = 0

NextList ==
    \/ \E u \in Callers, b \in CoBodiesListed : CreateListedCO(u, "s1", b)
    \/ \E u \in Callers, sid \in {"s1", "s9"} : ListCOs(u, sid)

SpecList == InitListed /\ [][NextList]_vars

\* The listed CO c is the one submitted as co_data on subject S.
SubmittedCo(c, co_data, S) ==
    /\ c.code = co_data.code
    /\ c.description = co_data.description
    /\ c.bloom_level = co_data.bloom_level
    /\ c.target_level = co_data.target_level
    /\ c.subject_id = S

\* C18: a list_subject_cos(S) answered right after a successful create_co on
\* S returns the submitted CO exactly once, with its code, description,
\* bloom_level and target_level and with subject_id = S, and the listing of S
\* after the create holds every CO the listing of S held before it.
C18_CreateThenList ==
    [][ /\ (/\ last.op = "create_co" /\ last.status = 200
            /\ last'.op = "list_subject_cos" /\ last'.path = last.path)
              => /\ last'.status = 200
                 /\ Cardinality({j \in 1..Len(last'.returned.items) :
                        SubmittedCo(last'.returned.items[j], last.body, last.path)}) = 1
        /\ (last'.op = "create_co" /\ last'.status = 200)
              => LET before == find_cos(cos, last'.path)
                     after == find_cos(cos', last'.path)
                 IN  {before[k] : k \in 1..Len(before)}
                        \subseteq {after[j] : j \in 1..Len(after)} ]_vars

(***************************************************************************)
(* Reads between writes (SpecRead).                                        *)
(***************************************************************************)
ReadOps ==
    {"list_departments", "list_programs", "list_courses", "get_course", "list_subjects",
     "get_subject", "list_subject_cos", "list_program_pos", "list_co_po_mappings",
     "list_subject_questions", "get_question", "list_users", "get_current_user_info"}

Admins == {u \in Callers : u.role = SUPER_ADMIN}
Readers == {u \in Callers : u.id # "t2"}

InitRead ==
    /\ users = SeededUsers
    /\ departments = SeededDepartments
    /\ programs = SeededPrograms
    /\ courses = SeededCourses
    /\ subjects = SeededSubjects
    /\ pos = SeededPos
    /\ cos = <<>>
    /\ co_po_mappings = <<>>
    /\ questions = <<>>
    /\ exam_questions = <<>>
    /\ setup = <<>>
    /\ next_uuid = 0
    /\ last = NoRequest
    /\ resp = NoRequest
    /\ pc = <<>> /\ req = <<>> /\ loc = <<>> /\ keyed = <<>> /\ tokens = {} /\ now = 0

NextRead ==
    \/ \E u \in Admins, b \in CoBodies : CreateCO(u, "s1", b)
    \/ \E u \in Admins, b \in MappingBodiesCO : CreateMapping(u, b.co_id, b)
    \/ \E u \in Admins, b \in QuestionBodies : CreateQuestion(u, "s1", b)
    \/ \E u \in Admins : DeleteQuestion(u, "q1")
    \/ \E u \in Readers : GetCurrentUserInfo(u)
    \/ \E u \in Readers : ListUsers(u)
    \/ \E u \in Readers : ListDepartments(u)
    \/ \E u \in Readers, d \in {PyNone, "d1"} : ListPrograms(u, d)
    \/ \E u \in Readers, g \in {"", "g2"} : ListCourses(u, g)
    \/ \E u \in Readers, c \in {"c1", "c9"} : GetCourse(u, c)
    \/ \E u \in Readers, c \in {PyNone, "c1"}, t \in {PyNone, "t1"} : ListSubjects(u, c, t)
    \/ \E u \in Readers, x \in {"s2", "s9"} : GetSubject(u, x)
    \/ \E u \in Readers, x \in {"s1", "s9"} : ListCOs(u, x)
    \/ \E u \in Readers, g \in {"g1", "g9"} : ListPOs(u, g)
    \/ \E u \in Readers, c \in {"co1"} : ListMappings(u, c)
    \/ \E u \in Readers, x \in {"s1", "s2"}, t \in {PyNone, MSQ}, c \in {PyNone, "co1"} :
          ListQuestions(u, x, t, c)
    \/ \E u \in Readers, q \in {"q1"} : GetQuestion(u, q)

SpecRead == InitRead /\ [][NextRead]_vars

CreateDepartment(current_user, dept_data) ==
    LET r == create_department(dept_data, current_user)
    IN  /\ r.status = 200 => Len(departments) < MaxRecords
        /\ departments' = r.coll
        /\ last' = Completed("create_department", current_user, "-", dept_data, r)
        /\ UNCHANGED <<users, programs, courses, subjects, pos, cos, co_po_mappings,
                       questions, exam_questions, setup, next_uuid, procVars>>

CreateProgram(current_user, prog_data) ==
    LET r == create_program(prog_data, current_user)
    IN  /\ r.status = 200 => Len(programs) < MaxRecords
        /\ programs' = r.coll
        /\ last' = Completed("create_program", current_user, "-", prog_data, r)
        /\ UNCHANGED <<users, departments, courses, subjects, pos, cos, co_po_mappings,
                       questions, exam_questions, setup, next_uuid, procVars>>

CreateCourse(current_user, course_data) ==
    LET r == create_course(course_data, current_user)
    IN  /\ r.status = 200 => Len(courses) < MaxRecords
        /\ courses' = r.coll
        /\ last' = Completed("create_course", current_user, "-", course_data, r)
        /\ UNCHANGED <<users, departments, programs, subjects, pos, cos, co_po_mappings,
                       questions, exam_questions, setup, next_uuid, procVars>>

CreateSubject(current_user, subject_data) ==
    LET r == create_subject(subject_data, current_user)
    IN  /\ r.status = 200 => Len(subjects) < MaxRecords
        /\ subjects' = r.coll
        /\ last' = Completed("create_subject", current_user, "-", subject_data, r)
        /\ UNCHANGED <<users, departments, programs, courses, pos, cos, co_po_mappings,
                       questions, exam_questions, setup, next_uuid, procVars>>

DepartmentBodies == [id : {"d2"}, code : {"DEP1", "DEP2"}]
ProgramBodies == [id : {"g3"}, dept_id : {"d1", "d2", "d9"}, code : {"PRG1", "PRG3"}]
CourseBodies == [id : {"c2"}, program_id : {"g1", "g3", "g9"}, code : {"CRS1", "CRS2"}]
SubjectBodies ==
    [id : {"s3"}, course_id : {"c1", "c2", "c9"}, code : {"SUB1", "SUB3"},
     teacher_id : {"t1", "st"}]

NextHier ==
    \/ \E u \in Callers, b \in DepartmentBodies : CreateDepartment(u, b)
    \/ \E u \in Callers, b \in ProgramBodies : CreateProgram(u, b)
    \/ \E u \in Callers, b \in CourseBodies : CreateCourse(u, b)
    \/ \E u \in Callers, b \in SubjectBodies : CreateSubject(u, b)

SpecHier == Init /\ [][NextHier]_vars

DepartmentStored(dept_id) == \E i \in 1..Len(departments) : departments[i].id = dept_id
CourseStored(course_id) == \E i \in 1..Len(courses) : courses[i].id = course_id

HierarchyResolves ==
    /\ \A i \in 1..Len(programs) : DepartmentStored(programs[i].dept_id)
    /\ \A i \in 1..Len(courses) : ProgramStored(courses[i].program_id)
    /\ \A i \in 1..Len(subjects) : CourseStored(subjects[i].course_id)

\* The request r is a hierarchy create whose parent id does not resolve.
ParentUnresolved(r) ==
    \/ r.op = "create_program" /\ ~DepartmentStored(r.body.dept_id)
    \/ r.op = "create_course" /\ ~ProgramStored(r.body.program_id)
    \/ r.op = "create_subject" /\ ~CourseStored(r.body.course_id)

\* The duplicate-code lookup, which the handlers make first, finds a record.
HierarchyCodeHeld(r) ==
    \/ r.op = "create_program"
          /\ \E i \in 1..Len(programs) : programs[i].code = r.body.code
    \/ r.op = "create_course"
          /\ \E i \in 1..Len(courses) : /\ courses[i].program_id = r.body.program_id
                                        /\ courses[i].code = r.body.code
    \/ r.op = "create_subject"
          /\ \E i \in 1..Len(subjects) : /\ subjects[i].course_id = r.body.course_id
                                         /\ subjects[i].code = r.body.code

ParentNotFoundDetail(op) ==
    CASE op = "create_program" -> "Department not found"
      [] op = "create_course" -> "Program not found"
      [] op = "create_subject" -> "Course not found"

SubjectBodiesT ==
    [id : {"s3"}, course_id : {"c1"}, code : {"SUB1", "SUB3"},
     teacher_id : {"t1", "st", "t9"}]

NextTeacher ==
    \/ \E u \in Callers, b \in SubjectBodiesT : CreateSubject(u, b)
    \/ ResetSetup
    \/ \E d \in SetupRequests : Initialize(d)

SpecTeacher == Init /\ [][NextTeacher]_vars

TeacherStored(teacher_id) ==
    \E i \in 1..Len(users) : /\ users[i].id = teacher_id
                             /\ users[i].role \in {TEACHER, SUPER_ADMIN}

SubjectTeachersResolve ==
    \A i \in 1..Len(subjects) : TeacherStored(subjects[i].teacher_id)

\* C21: before and after every request, every stored subject's teacher_id
\* identifies a stored user whose role is TEACHER or SUPER_ADMIN; a
\* create_subject whose teacher_id resolves to no such user stores nothing
\* and fails, for an admin with 400.
C21_SubjectTeacherResolves ==
    [][ /\ SubjectTeachersResolve
        /\ SubjectTeachersResolve'
        /\ (last'.op = "create_subject" /\ ~TeacherStored(last'.body.teacher_id))
              => /\ UNCHANGED storeVars
                 /\ last'.status \in {400, 403}
                 /\ UserOf(last'.caller).role = SUPER_ADMIN => last'.status = 400 ]_vars

(***************************************************************************)
(* Codes and their scopes (SpecCodes): the five creations that take a code *)
(* from the body, with codes that are held in the same and in another      *)
(* scope.                                                                  *)
(***************************************************************************)
ProgramBodiesC == [id : {"g3"}, dept_id : {"d1", "d2"}, code : {"PRG1", "PRG3"}]
CourseBodiesC == [id : {"c2"}, program_id : {"g1", "g2"}, code : {"CRS1", "CRS2"}]
SubjectBodiesC == [id : {"s3"}, course_id : {"c1", "c2"}, code : {"SUB1"}, teacher_id : {"t1"}]
PoBodiesC == [id : {"p2"}, program_id : {"g1"}, code : {"PO1", "PO2"}]

NextCodes ==
    \/ \E u \in Admins, b \in DepartmentBodies : CreateDepartment(u, b)
    \/ \E u \in Admins, b \in ProgramBodiesC : CreateProgram(u, b)
    \/ \E u \in Admins, b \in CourseBodiesC : CreateCourse(u, b)
    \/ \E u \in Admins, b \in SubjectBodiesC : CreateSubject(u, b)
    \/ \E u \in Admins, g \in ProgramIds, b \in PoBodiesC : CreatePO(u, g, b)

SpecCodes == Init /\ [][NextCodes]_vars

CodesUniqueInScope ==
    /\ \A i, j \in 1..Len(departments) :
          i # j => departments[i].code # departments[j].code
    /\ \A i, j \in 1..Len(programs) : i # j => programs[i].code # programs[j].code
    /\ \A i, j \in 1..Len(courses) :
          i # j => <<courses[i].program_id, courses[i].code>>
                      # <<courses[j].program_id, courses[j].code>>
    /\ \A i, j \in 1..Len(subjects) :
          i # j => <<subjects[i].course_id, subjects[i].code>>
                      # <<subjects[j].course_id, subjects[j].code>>
    /\ \A i, j \in 1..Len(pos) :
          i # j => <<pos[i].program_id, pos[i].code>> # <<pos[j].program_id, pos[j].code>>

CourseCodeHeld(program_id, code) ==
    \E i \in 1..Len(courses) : courses[i].program_id = program_id /\ courses[i].code = code
SubjectCodeHeld(course_id, code) ==
    \E i \in 1..Len(subjects) : subjects[i].course_id = course_id /\ subjects[i].code = code

\* C22: codes stay unique within their scope (departments and programs
\* globally, courses per program, subjects per course, POs per program); a
\* program code held by any program is refused; an admin's course, subject
\* or PO whose parent (and teacher) resolves and whose code is held only in
\* another scope is accepted.
C22_CodesUniqueInScope ==
    [][ /\ CodesUniqueInScope
        /\ CodesUniqueInScope'
        /\ (/\ last'.op = "create_program"
            /\ \E i \in 1..Len(programs) : programs[i].code = last'.body.code)
              => last'.status = 400 /\ UNCHANGED storeVars
        /\ (/\ last'.op = "create_course"
            /\ UserOf(last'.caller).role = SUPER_ADMIN
            /\ ProgramStored(last'.body.program_id)
            /\ ~CourseCodeHeld(last'.body.program_id, last'.body.code))
              => last'.status = 200 /\ courses' = Append(courses, last'.body)
        /\ (/\ last'.op = "create_subject"
            /\ UserOf(last'.caller).role = SUPER_ADMIN
            /\ CourseStored(last'.body.course_id)
            /\ TeacherStored(last'.body.teacher_id)
            /\ ~SubjectCodeHeld(last'.body.course_id, last'.body.code))
              => last'.status = 200 /\ subjects' = Append(subjects, last'.body)
        /\ (/\ last'.op = "create_po"
            /\ UserOf(last'.caller).role = SUPER_ADMIN
            /\ ProgramStored(last'.path)
            /\ ~PoCodeHeldInProgram(last'.path, last'.body.code))
              => /\ last'.status = 200
                 /\ pos' = Append(pos, [last'.body EXCEPT !.program_id = last'.path]) ]_vars

\* C22 witness: a course was created with the code a course of another
\* program holds, and a PO with the code a PO of another program holds.
C22_Witness ==
    /\ last.op = "create_course"
    /\ last.status = 200
    /\ \E i \in 1..Len(courses) : /\ courses[i].code = last.body.code
                                  /\ courses[i].program_id # last.body.program_id
    /\ \E i, j \in 1..Len(pos) : /\ pos[i].code = pos[j].code
                                 /\ pos[i].program_id # pos[j].program_id

(***************************************************************************)
(* Identifiers (SpecScope): the body of a create may carry an id.          *)
(***************************************************************************)
IdsUnique(coll) == \A i, j \in 1..Len(coll) : i # j => coll[i].id # coll[j].id

\* C23: in every reachable state no two departments, programs, courses,
\* subjects, COs, POs, mappings or questions have the same id, also when a
\* create's body carries the id of a stored record.
C23_IdsUniquePerCollection ==
    /\ IdsUnique(departments)
    /\ IdsUnique(programs)
    /\ IdsUnique(courses)
    /\ IdsUnique(subjects)
    /\ IdsUnique(cos)
    /\ IdsUnique(pos)
    /\ IdsUnique(co_po_mappings)
    /\ IdsUnique(questions)

(***************************************************************************)
(* SpecAuth: the token endpoints on a fresh store.  Clients initialize,    *)
(* reset, log in, exchange refresh tokens and call bearer-protected        *)
(* endpoints with any token handed out so far, while the clock advances.   *)
(***************************************************************************)
MaxTokenPairs == 2
MaxTicks == 1

\* Every initialize of SpecAuth registers the same admin email.
AuthSetupRequests == [admin_email : {"a@x.edu"}, admin_password : {"Passw0rd"}]
AuthUserCreates == [email : {"b@x.edu"}, role : {TEACHER}, password : {"Passw0rd"}]
LoginRequests == [email : Emails, password : {"Passw0rd", "Wr0ngpass"}]

Presented(token) == [token |-> token]

BearerEffect(op, token, r) ==
    /\ SetupEffect(op, "-", Presented(token), r)
    /\ Cardinality(tokens') <= 2 * MaxTokenPairs

\* Depends(get_current_user) in front of a handler's response.
Authenticated(c, r) ==
    IF c.status = 200
    THEN SetupResponse(r.status, r.detail, users, setup, 0, r.returned)
    ELSE SetupResponse(c.status, c.detail, users, setup, 0, NoBody)

Login(login_data) ==
    /\ SetupEffect("login", "-", login_data, login(login_data))
    /\ Cardinality(tokens') <= 2 * MaxTokenPairs

RefreshToken(token) == BearerEffect("refresh_token", token, refresh_token(token))

\* GET /users/me with a bearer token.
BearerGetMe(token) ==
    LET c == get_current_user(token)
    IN BearerEffect("get_current_user_info", token,
                    IF c.status = 200 THEN Authenticated(c, get_current_user_info(c.user))
                    ELSE Authenticated(c, c))

\* GET /users with a bearer token.
BearerListUsers(token) ==
    LET c == get_current_user(token)
    IN BearerEffect("list_users", token,
                    IF c.status = 200 THEN Authenticated(c, list_users(c.user))
                    ELSE Authenticated(c, c))

\* Time passes: one access-token lifetime or one refresh-token lifetime.
Tick ==
    /\ \E d \in {AccessLifetime, RefreshLifetime} : now < MaxTicks * d /\ now' = now + d
    /\ last' = NoRequest
    /\ UNCHANGED <<storeVars, next_uuid, pc, req, loc, resp, keyed, tokens>>

NextAuth ==
    \/ \E d \in AuthSetupRequests : Initialize(d)
    \/ ResetSetup
    \/ \E u \in Callers, d \in AuthUserCreates : CreateUser(u, d)
    \/ \E d \in LoginRequests : Login(d)
    \/ \E t \in tokens : RefreshToken(t)
    \/ \E t \in tokens : BearerGetMe(t)
    \/ \E t \in tokens : BearerListUsers(t)
    \/ Tick

SpecAuth == InitFresh /\ [][NextAuth]_vars

BearerOps == {"get_current_user_info", "list_users"}

\* Inputs of the token constructors, some with a type entry of their own.
TokenInputs ==
    [user_id : {"u0"}] \cup [user_id : {"u0"}, role : {SUPER_ADMIN}]
        \cup [user_id : {"u0"}, type : {"access", "refresh", "admin"}]

\* C24: a refresh token presented as bearer credential is rejected with 401,
\* an access token presented to /auth/refresh is rejected with 401, neither
\* request changes anything; the access_token of every response is of type
\* access and the refresh_token of type refresh, and the two constructors set
\* the type whatever type entry the input data carries.
C24_TokenTypesNotInterchangeable ==
    [][ /\ (last'.op \in BearerOps /\ last'.body.token.type = "refresh")
            => last'.status = 401 /\ UNCHANGED <<storeVars, next_uuid, tokens>>
        /\ (last'.op = "refresh_token" /\ last'.body.token.type = "access")
            => last'.status = 401 /\ UNCHANGED <<storeVars, next_uuid, tokens>>
        /\ (last'.status = 200 /\ last'.op \in {"initialize_system", "login", "refresh_token"})
            => /\ last'.returned.access_token.type = "access"
               /\ last'.returned.refresh_token.type = "refresh"
        /\ \A data \in TokenInputs :
              /\ create_access_token(data).type = "access"
              /\ create_refresh_token(data).type = "refresh" ]_vars

\* C24 witness: an unexpired access token of a stored user was presented to
\* /auth/refresh and refused.
C24_Witness ==
    /\ last.op = "refresh_token"
    /\ last.body.token.type = "access"
    /\ ~Expired(last.body.token)
    /\ \E i \in 1..Len(users) : users[i].id = last.body.token.user_id
    /\ last.status = 401

UserStored(coll, id) == \E i \in 1..Len(coll) : coll[i].id = id

TokenOps == BearerOps \cup {"refresh_token"}

\* C25: a token whose user_id identifies no stored user is refused with 401 on
\* the bearer-protected endpoints and on /auth/refresh, and nothing changes;
\* reset_setup leaves no user, so every token issued before it is such a
\* token; and a token that identifies no stored user identifies none after the
\* next request either, a later initialize with the same admin email included.
C25_DeletedUserNeverAuthenticates ==
    [][ /\ (last'.op \in TokenOps /\ ~UserStored(users, last'.body.token.user_id))
            => last'.status = 401 /\ UNCHANGED <<storeVars, next_uuid, tokens>>
        /\ last'.op = "reset_setup"
            => \A t \in tokens' : ~UserStored(users', t.user_id)
        /\ \A t \in tokens :
              ~UserStored(users, t.user_id) => ~UserStored(users', t.user_id) ]_vars

\* C25 witness: after a reset and a new initialize with the same admin email,
\* an unexpired access token of the removed admin was presented to a
\* bearer-protected endpoint and refused.
C25_Witness ==
    /\ last.op \in BearerOps
    /\ last.body.token.type = "access"
    /\ ~Expired(last.body.token)
    /\ last.status = 401
    /\ last.detail = "User not found"
    /\ Len(users) = 1
    /\ users[1].email = "a@x.edu"
    /\ \E t \in tokens : t.type = "refresh" /\ t.user_id = last.body.token.user_id

(***************************************************************************)
(* SpecGates: the admin-only endpoints called by every stored user who is  *)
(* not an admin, the staff endpoints called by every stored user.          *)
(***************************************************************************)
GateDepartments == [id : {"d2"}, code : {"DEP2"}]
GatePrograms == [id : {"g3"}, dept_id : {"d1"}, code : {"PRG3"}]
GateCourses == [id : {"c2"}, program_id : {"g1"}, code : {"CRS2"}]
GateSubjects == [id : {"s3"}, course_id : {"c1"}, code : {"SUB3"}, teacher_id : {"t1"}]
GatePos == [id : {"p2"}, program_id : {"g1"}, code : {"PO2"}]
GateUsers == [email : {"c@x.edu"}, role : {TEACHER}, password : {"Passw0rd"}]

NonAdmins == Callers \ Admins

NextGates ==
    \/ \E u \in NonAdmins : ListUsers(u)
    \/ \E u \in NonAdmins, d \in GateUsers : CreateUser(u, d)
    \/ \E u \in NonAdmins, b \in GateDepartments : CreateDepartment(u, b)
    \/ \E u \in NonAdmins, b \in GatePrograms : CreateProgram(u, b)
    \/ \E u \in NonAdmins, b \in GateCourses : CreateCourse(u, b)
    \/ \E u \in NonAdmins, b \in GateSubjects : CreateSubject(u, b)
    \/ \E u \in NonAdmins, b \in GatePos : CreatePO(u, "g1", b)
    \/ \E u \in Callers, b \in CoBodies : CreateCO(u, "s1", b)
    \/ \E u \in Callers, b \in CoBodies : UpdateCO(u, "co1", b)
    \/ \E u \in Callers : DeleteCO(u, "co1")
    \/ \E u \in Callers, b \in MappingBodiesCO : CreateMapping(u, "co1", b)
    \/ \E u \in Callers, b \in MappingBodiesCO : UpdateMapping(u, "m1", b)
    \/ \E u \in Callers : DeleteMapping(u, "m1")
    \/ \E u \in Callers, b \in QuestionBodies : CreateQuestion(u, "s1", b)
    \/ \E u \in Callers, b \in QuestionBodies : UpdateQuestion(u, "q1", b)
    \/ \E u \in Callers : DeleteQuestion(u, "q1")
    \/ \E u \in Callers : ListQuestions(u, "s1", PyNone, PyNone)
    \/ \E u \in Callers : GetQuestion(u, "q1")

SpecGates == InitRead /\ [][NextGates]_vars

AdminOps ==
    {"list_users", "create_user", "create_department", "create_program", "create_course",
     "create_subject", "create_po"}
StaffOps ==
    {"create_co", "update_co", "delete_co", "create_co_po_mapping", "update_co_po_mapping",
     "delete_co_po_mapping", "create_question", "update_question", "delete_question",
     "list_subject_questions", "get_question"}

StoredRole(user_id) == UserOf(user_id).role

\* C26: a caller whose stored role is not SUPER_ADMIN gets 403 on GET /users,
\* POST /users, POST /departments, POST /programs, POST /courses, POST
\* /subjects and POST /programs/{id}/pos; a caller whose stored role is
\* STUDENT gets 403 on every CO, mapping and question mutation and on every
\* question read; in all these cases no collection changes.
C26_RoleGates ==
    [][ /\ (last'.op \in AdminOps /\ StoredRole(last'.caller) # SUPER_ADMIN)
            => last'.status = 403 /\ UNCHANGED <<storeVars, next_uuid>>
        /\ (last'.op \in StaffOps /\ StoredRole(last'.caller) = STUDENT)
            => last'.status = 403 /\ UNCHANGED <<storeVars, next_uuid>> ]_vars

\* C26 witness: with a question stored, a teacher was refused on an
\* admin-only endpoint.
C26_Witness ==
    /\ last.op \in AdminOps
    /\ StoredRole(last.caller) = TEACHER
    /\ last.status = 403
    /\ Len(questions) = 1

(***************************************************************************)
(* SpecLogin: logins on a store with several users, while the clock        *)
(* advances.                                                               *)
(***************************************************************************)
SeededLogins ==
    [email : {"admin@x.edu", "t1@x.edu", "nobody@x.edu"}, password : {"pw0", "pw1"}]

NextLogin ==
    \/ \E d \in SeededLogins : Login(d)
    \/ \E t \in tokens : BearerGetMe(t)
    \/ Tick

SpecLogin == InitRead /\ [][NextLogin]_vars

\* The stored user with the email and the password of the login request.
LoginMatch(login_data, i) ==
    /\ i \in 1..Len(users)
    /\ users[i].email = login_data.email
    /\ users[i].hashed_password = Hash(login_data.password)

OtherCollections ==
    <<departments, programs, courses, subjects, pos, cos, co_po_mappings, questions,
      exam_questions, setup>>

\* C27: a login with an unknown email or with a password that does not match
\* the stored hash fails with 400 (Invalid credentials) and leaves every user
\* record unchanged; a successful login changes nothing but the last_login_at
\* field of the authenticated user's record and returns an access token and a
\* refresh token for that user.
C27_LoginEffect ==
    [][ last'.op = "login" =>
          /\ UNCHANGED OtherCollections
          /\ (~\E i \in 1..Len(users) : LoginMatch(last'.body, i))
                => /\ last'.status = 400
                   /\ last'.detail = "Invalid credentials"
                   /\ users' = users
                   /\ tokens' = tokens
          /\ \A i \in 1..Len(users) : LoginMatch(last'.body, i)
                => /\ last'.status = 200
                   /\ Len(users') = Len(users)
                   /\ \A j \in 1..Len(users) : j # i => users'[j] = users[j]
                   /\ users'[i] = [users[i] EXCEPT !.last_login_at = users'[i].last_login_at]
                   /\ last'.returned.access_token.user_id = users[i].id
                   /\ last'.returned.access_token.type = "access"
                   /\ last'.returned.refresh_token.user_id = users[i].id
                   /\ last'.returned.refresh_token.type = "refresh" ]_vars

\* C27 witness: a user logged in some time after another user had, and a
\* third user never did.
C27_Witness ==
    /\ last.op = "login"
    /\ last.status = 200
    /\ \E i, j, k \in 1..Len(users) :
          /\ users[i].email = last.body.email
          /\ users[i].last_login_at = now
          /\ users[j].last_login_at \notin {NeverLoggedIn, now}
          /\ users[k].last_login_at = NeverLoggedIn

\* C28: a refresh token handed out by initialize, login or refresh, presented
\* to /auth/refresh before its expiry while its user is stored, yields 200
\* with a newly minted access token and refresh token of the same user; the
\* new access token authenticates as that user, and GET /users/me with an
\* unexpired access token of a stored user returns that user; the exchange
\* changes no stored record.
C28_RefreshExchange ==
    [][ /\ ( /\ last'.op = "refresh_token"
             /\ last'.body.token \in tokens
             /\ last'.body.token.type = "refresh"
             /\ last'.body.token.exp > now
             /\ UserStored(users, last'.body.token.user_id) )
            => /\ last'.status = 200
               /\ last'.returned.access_token.type = "access"
               /\ last'.returned.access_token.user_id = last'.body.token.user_id
               /\ last'.returned.access_token.exp = now + AccessLifetime
               /\ last'.returned.refresh_token.type = "refresh"
               /\ last'.returned.refresh_token.user_id = last'.body.token.user_id
               /\ last'.returned.refresh_token.exp = now + RefreshLifetime
               /\ {last'.returned.access_token, last'.returned.refresh_token} \subseteq tokens'
               /\ get_current_user(last'.returned.access_token).status = 200
               /\ get_current_user(last'.returned.access_token).user.id
                     = last'.body.token.user_id
               /\ UNCHANGED <<storeVars, next_uuid, now>>
        /\ ( /\ last'.op = "get_current_user_info"
             /\ last'.body.token.type = "access"
             /\ last'.body.token.exp > now
             /\ UserStored(users, last'.body.token.user_id) )
            => /\ last'.status = 200
               /\ last'.returned.id = last'.body.token.user_id
               /\ UNCHANGED <<storeVars, next_uuid, now>> ]_vars

\* C28 witness: a refresh token issued at an earlier time was exchanged for
\* tokens that outlive it.
C28_Witness ==
    /\ last.op = "refresh_token"
    /\ last.status = 200
    /\ last.returned.refresh_token.exp > last.body.token.exp
    /\ last.returned.access_token \in tokens
    /\ UserStored(users, last.body.token.user_id)

\* C29: reset_setup, which takes no credentials, removes every setup record
\* and every user; an initialize_system that follows a completed reset
\* succeeds, whatever was stored before the reset and also with an admin email
\* registered before it, stores the admin and returns an access token, a
\* refresh token and the admin user.
C29_ResetThenInitialize ==
    [][ /\ last'.op = "reset_setup"
            => last'.status = 200 /\ users' = <<>> /\ setup' = <<>>
        /\ (last.op = "reset_setup" /\ last'.op = "initialize_system")
            => /\ last'.status = 200
               /\ Len(users') = 1
               /\ users'[1].role = SUPER_ADMIN
               /\ users'[1].email = last'.body.admin_email
               /\ last'.returned.user.id = users'[1].id
               /\ last'.returned.user.role = SUPER_ADMIN
               /\ last'.returned.access_token.user_id = users'[1].id
               /\ last'.returned.access_token.type = "access"
               /\ last'.returned.refresh_token.user_id = users'[1].id
               /\ last'.returned.refresh_token.type = "refresh" ]_vars

\* C29 witness: an initialize succeeded for an admin who is not the first
\* one, so a reset came between; every initialize of SpecAuth carries the
\* same admin email, and tokens of earlier users are still around.
C29_Witness ==
    /\ last.op = "initialize_system"
    /\ last.status = 200
    /\ last.returned.user.id # Uuid(1)
    /\ last.returned.user.email = "a@x.edu"
    /\ \E t \in tokens : t.user_id = Uuid(1)
    /\ Len(users) = 1

(***************************************************************************)
(* SpecAtomic: every writing operation of the core with requests that pass *)
(* and requests that fail each of its checks.                              *)
(***************************************************************************)
AtomicDepartments == [id : {"d2"}, code : {"DEP1", "DEP2"}]
AtomicPrograms == [id : {"g3"}, dept_id : {"d1", "d9"}, code : {"PRG3"}]
AtomicCourses == [id : {"c2"}, program_id : {"g1", "g9"}, code : {"CRS2"}]
AtomicSubjects == [id : {"s3"}, course_id : {"c1"}, code : {"SUB3"}, teacher_id : {"t1", "st"}]
AtomicMappings == [id : {"m1"}, co_id : {"co1"}, po_id : {"p1", "p9"}, weight : {2}]
AtomicUsers == [email : {"t1@x.edu"}, role : {TEACHER}, password : {"Passw0rd"}]
AtomicSetups == [admin_email : {"admin@x.edu"}, admin_password : {"Passw0rd"}]
AtomicLogins == [email : {"admin@x.edu"}, password : {"pw0"}]

AdminOrStudent == {u \in Callers : u.role \in {SUPER_ADMIN, STUDENT}}
TeacherOrStudent == {u \in Callers : u.role \in {TEACHER, STUDENT}}

\* POST /users with a bearer token.
BearerCreateUser(token, user_data) ==
    LET c == get_current_user(token)
    IN BearerEffect("create_user", token,
                    IF c.status = 200 THEN create_user(user_data, c.user)
                    ELSE Authenticated(c, c))

NextAtomic ==
    \/ \E d \in AtomicSetups : Initialize(d)
    \/ \E d \in AtomicLogins : Login(d)
    \/ \E t \in tokens, d \in AtomicUsers : BearerCreateUser(t, d)
    \/ \E u \in AdminOrStudent, b \in AtomicDepartments : CreateDepartment(u, b)
    \/ \E u \in AdminOrStudent, b \in AtomicPrograms : CreateProgram(u, b)
    \/ \E u \in AdminOrStudent, b \in AtomicCourses : CreateCourse(u, b)
    \/ \E u \in AdminOrStudent, b \in AtomicSubjects : CreateSubject(u, b)
    \/ \E u \in AdminOrStudent, g \in {"g1", "g9"}, b \in GatePos : CreatePO(u, g, b)
    \/ \E u \in TeacherOrStudent, b \in CoBodies : CreateCO(u, "s1", b)
    \/ \E u \in TeacherOrStudent, b \in CoBodies : UpdateCO(u, "co1", b)
    \/ \E u \in TeacherOrStudent : DeleteCO(u, "co1")
    \/ \E u \in TeacherOrStudent, b \in AtomicMappings : CreateMapping(u, "co1", b)
    \/ \E u \in TeacherOrStudent, b \in AtomicMappings : UpdateMapping(u, "m1", b)
    \/ \E u \in TeacherOrStudent : DeleteMapping(u, "m1")
    \/ \E u \in TeacherOrStudent, b \in QuestionBodies : CreateQuestion(u, "s1", b)
    \/ \E u \in TeacherOrStudent, b \in QuestionBodies : UpdateQuestion(u, "q1", b)
    \/ \E u \in TeacherOrStudent : DeleteQuestion(u, "q1")

SpecAtomic == InitRead /\ [][NextAtomic]_vars

CoreOps ==
    {"create_department", "create_program", "create_course", "create_subject", "create_po",
     "create_co", "update_co", "delete_co", "create_co_po_mapping", "update_co_po_mapping",
     "delete_co_po_mapping", "create_question", "update_question", "delete_question",
     "create_user", "initialize_system"}

ErrorStatuses == {400, 401, 403, 404}

\* C30: a hierarchy, CO, PO, mapping, question, user-creation or initialize
\* request that is answered with 400, 401, 403 or 404 leaves every collection
\* as it was before the request.
C30_AllOrNothing ==
    [][ (last'.op \in CoreOps /\ last'.status \in ErrorStatuses)
            => UNCHANGED storeVars ]_vars

\* C30 witness: on a store that holds a CO, a mapping was refused because its
\* PO does not exist, the last of the checks but one.
C30_Witness ==
    /\ last.op = "create_co_po_mapping"
    /\ last.status = 404
    /\ last.detail = "PO not found"
    /\ Len(cos) > 0
    /\ Len(co_po_mappings) = 0

(***************************************************************************)
(* SpecFilter: filtered question listings on stores of a few sizes up to   *)
(* one more than the length the list handler asks the driver for.          *)
(***************************************************************************)
Sent(text) == [sent |-> TRUE, text |-> text]

StoredQuestion(i) ==
    [id |-> "q-" \o ToString(i),
     subject_id |-> IF i = 1 THEN "s2" ELSE "s1",
     co_id |-> IF i % 5 < 2 THEN "co1" ELSE "co2",
     version |-> 1,
     type |-> IF i % 2 = 0 THEN MCQ ELSE NUMERIC,
     options |-> IF i % 2 = 0 THEN "dict:{A,B}" ELSE PyNone,
     correct_key |-> IF i % 2 = 0 THEN "str:A" ELSE "float:42.5",
     difficulty |-> IF i % 3 = 0 THEN "Hard" ELSE "Easy",
     tags |-> IF i % 4 = 0 THEN << <<"a">> >>
              ELSE IF i % 4 = 1 THEN << <<"b">> >>
              ELSE IF i % 4 = 2 THEN << <<"a">>, <<"c">> >>
              ELSE <<>>]

StoredQuestions(n) == [i \in 1..n |-> StoredQuestion(i)]

\* Question 1 is in another subject: ListLimit + 2 stored questions are
\* ListLimit + 1 questions of the subject listed.
StoredQuestionCounts == {MaxRecords, ListLimit, ListLimit + 2}

FilterQueries ==
    [type : {PyNone, MCQ}, difficulty : {PyNone, "Hard"}, co_id : {PyNone, "co1"},
     tags : {Unsent, Sent(<<"a">>), Sent(<<"b", ",", " ", "c", " ">>)}]

ListFilteredQuestions(current_user, subject_id, f) ==
    /\ Answer("list_subject_questions", current_user, subject_id, f,
              list_subject_questions(subject_id, f.type, f.difficulty, f.co_id, f.tags,
                                     current_user))
    /\ subjects' = AfterQuery(subjects)
    /\ questions' = AfterQuery(questions)
    /\ UNCHANGED <<hierVars, pos, cos, co_po_mappings>>

InitFilter ==
    /\ users = SeededUsers
    /\ departments = SeededDepartments
    /\ programs = SeededPrograms
    /\ courses = SeededCourses
    /\ subjects = SeededSubjects
    /\ pos = SeededPos
    /\ cos = <<>>
    /\ co_po_mappings = <<>>
    /\ questions \in {StoredQuestions(n) : n \in StoredQuestionCounts}
    /\ exam_questions = <<>>
    /\ setup = <<>>
    /\ next_uuid = 0
    /\ last = NoRequest
    /\ resp = NoRequest
    /\ pc = <<>> /\ req = <<>> /\ loc = <<>> /\ keyed = <<>> /\ tokens = {} /\ now = 0

NextFilter ==
    \E u \in Staff, f \in FilterQueries : ListFilteredQuestions(u, "s1", f)

SpecFilter == InitFilter /\ [][NextFilter]_vars

\* The tags a request asks for: the pieces of its comma-separated text.
RequestedTags(tags) == {TagList(tags)[j] : j \in 1..Len(TagList(tags))}

\* The stored question q of subject S satisfies every filter supplied in f.
SatisfiesFilters(q, S, f) ==
    /\ q.subject_id = S
    /\ f.type # PyNone => q.type = f.type
    /\ f.difficulty # PyNone => q.difficulty = f.difficulty
    /\ f.co_id # PyNone => q.co_id = f.co_id
    /\ (f.tags.sent /\ f.tags.text # <<>>)
          => {q.tags[i] : i \in 1..Len(q.tags)} \cap RequestedTags(f.tags) # {}

\* C31: list_subject_questions called by an admin or the teacher of the
\* subject returns exactly the stored questions of that subject that satisfy
\* every supplied filter (type, difficulty, co_id, one tag in common with the
\* requested tags); an omitted filter constrains nothing.
C31_FiltersConjunctive ==
    [][ (/\ last'.op = "list_subject_questions"
         /\ \E i \in 1..Len(subjects) :
               /\ subjects[i].id = last'.path
               /\ \/ StoredRole(last'.caller) = SUPER_ADMIN
                  \/ /\ StoredRole(last'.caller) = TEACHER
                     /\ subjects[i].teacher_id = last'.caller)
          => /\ last'.status = 200
             /\ LET items == last'.returned.items
                    wanted == {i \in 1..Len(questions) :
                                  SatisfiesFilters(questions[i], last'.path, last'.body)}
                IN  /\ Len(items) = Cardinality(wanted)
                    /\ {items[j] : j \in 1..Len(items)} = {questions[i] : i \in wanted} ]_vars

(***************************************************************************)
(* SpecExam: questions are deleted and created on stores that hold         *)
(* exam-question linkages.  No handler of the server writes                *)
(* db.exam_questions; the linkages are those found in the database.        *)
(***************************************************************************)
ExamQuestion(id, question_id) ==
    [id |-> id, exam_id |-> "x1", question_id |-> question_id, order_index |-> 1]

StoredLinkages ==
    { <<>>,
      <<ExamQuestion("e1", "q1")>>,
      <<ExamQuestion("e1", "q1"), ExamQuestion("e2", "q1")>>,
      <<ExamQuestion("e1", "q2")>> }

InitExam ==
    /\ users = SeededUsers
    /\ departments = SeededDepartments
    /\ programs = SeededPrograms
    /\ courses = SeededCourses
    /\ subjects = SeededSubjects
    /\ pos = SeededPos
    /\ cos = <<[id |-> "co1", subject_id |-> "s1", code |-> "CO1"]>>
    /\ co_po_mappings = <<>>
    /\ questions = <<ChoiceQuestion("q1", "co1"), ChoiceQuestion("q2", "co1")>>
    /\ exam_questions \in StoredLinkages
    /\ setup = <<SetupStatus("u0")>>
    /\ next_uuid = 0
    /\ last = NoRequest
    /\ IdleProcs

NextExam ==
    \/ \E u \in Callers, q \in {"q1", "q2", "q9"} : DeleteQuestion(u, q)
    \/ \E u \in Callers, b \in QuestionBodies : CreateQuestion(u, "s1", b)
    \/ \E u \in Callers, b \in QuestionBodies : UpdateQuestion(u, "q1", b)

SpecExam == InitExam /\ [][NextExam]_vars

Linked(question_id) ==
    \E i \in 1..Len(exam_questions) : exam_questions[i].question_id = question_id

\* The caller is an admin or the teacher of the subject of a stored question
\* with that id.
MayDelete(caller, question_id) ==
    \E i \in 1..Len(questions), j \in 1..Len(subjects) :
        /\ questions[i].id = question_id
        /\ subjects[j].id = questions[i].subject_id
        /\ \/ StoredRole(caller) = SUPER_ADMIN
           \/ StoredRole(caller) = TEACHER /\ subjects[j].teacher_id = caller

Without(coll, i) == [k \in 1..(Len(coll) - 1) |-> IF k < i THEN coll[k] ELSE coll[k + 1]]

\* C32: delete_question on a question referenced by an exam-question linkage
\* leaves the question stored, and answers 400 (in use) to an admin or the
\* teacher of its subject; on a question with no linkage, called by an admin
\* or the teacher of its subject, it removes that question and changes no
\* other record.
C32_DeleteQuestionInUse ==
    [][ last'.op = "delete_question" =>
          /\ Linked(last'.path)
                => /\ UNCHANGED storeVars
                   /\ last'.status # 200
                   /\ MayDelete(last'.caller, last'.path)
                         => /\ last'.status = 400
                            /\ last'.detail = "Cannot delete question. It is being used in exams"
          /\ (~Linked(last'.path) /\ MayDelete(last'.caller, last'.path))
                => /\ last'.status = 200
                   /\ \E i \in 1..Len(questions) :
                         /\ questions[i].id = last'.path
                         /\ questions' = Without(questions, i)
                   /\ UNCHANGED <<users, departments, programs, courses, subjects, pos, cos,
                                  co_po_mappings, exam_questions, setup>> ]_vars

\* C32 witness: the teacher of the subject was refused the deletion of a
\* question that two linkages reference, after deleting the other question.
C32_Witness ==
    /\ last.op = "delete_question"
    /\ last.caller = "t1"
    /\ last.status = 400
    /\ Len(exam_questions) = 2
    /\ Len(questions) = 1
    /\ questions[1].id = last.path

(***************************************************************************)
(* SpecEmail: initialize, user creation, reset and setup status, from a    *)
(* fresh store and from a store that holds users but no setup record.      *)
(***************************************************************************)
InitEmail ==
    /\ users \in {<<>>, <<AdminUser([admin_email |-> "a@x.edu", admin_password |-> "Passw0rd"],
                                    "u0")>>}
    /\ departments = <<>>
    /\ programs = <<>>
    /\ courses = <<>>
    /\ subjects = <<>>
    /\ pos = <<>>
    /\ cos = <<>>
    /\ co_po_mappings = <<>>
    /\ questions = <<>>
    /\ exam_questions = <<>>
    /\ setup = <<>>
    /\ next_uuid = 0
    /\ last = NoRequest
    /\ IdleProcs

SpecEmail == InitEmail /\ [][NextSetup]_vars

EmailStored(email) == \E i \in 1..Len(users) : users[i].email = email

EmailsUnique(coll) ==
    \A i, j \in 1..Len(coll) : coll[i].email = coll[j].email => i = j

OrderPrograms == [id : {"g3"}, dept_id : {"d1", "d9"}, code : {"PRG1", "PRG3"}]
OrderCourses == [id : {"c2"}, program_id : {"g1", "g9"}, code : {"CRS1", "CRS2"}]
OrderSubjects ==
    [id : {"s3"}, course_id : {"c1", "c9"}, code : {"SUB1", "SUB3"}, teacher_id : {"t1"}]

NextOrder ==
    \/ \E u \in Admins, b \in OrderPrograms : CreateProgram(u, b)
    \/ \E u \in Admins, b \in OrderCourses : CreateCourse(u, b)
    \/ \E u \in Admins, b \in OrderSubjects : CreateSubject(u, b)
    \/ \E u \in Staff, s \in {"s1", "s9"}, b \in CoBodies : CreateCO(u, s, b)
    \/ \E u \in Staff, c \in {"co1", "co9"}, b \in AtomicMappings : CreateMapping(u, c, b)

SpecOrder == InitRead /\ [][NextOrder]_vars

\* The teacher_id of the subject that the create_co or create_co_po_mapping
\* request r acts in, when the path resolves to a stored subject.
SubjectOfCreate(r) ==
    IF r.op = "create_co" THEN r.path
    ELSE cos[FindOne(cos, LAMBDA c : c.id = r.path)].subject_id

CreatePathResolves(r) ==
    /\ r.op = "create_co_po_mapping" => \E i \in 1..Len(cos) : cos[i].id = r.path
    /\ \E i \in 1..Len(subjects) : subjects[i].id = SubjectOfCreate(r)

NotOwnerOfCreate(r) ==
    /\ StoredRole(r.caller) = TEACHER
    /\ \E i \in 1..Len(subjects) : /\ subjects[i].id = SubjectOfCreate(r)
                                   /\ subjects[i].teacher_id # r.caller

\* C34: a request that fails several checks reports the earliest of
\* existence, ownership, uniqueness: an admin's hierarchy create whose parent
\* does not resolve reports the parent-not-found error whether or not its
\* code is taken; a create_co or create_co_po_mapping whose path does not
\* resolve reports 404, and one by a teacher who does not own the subject
\* reports 403, whether or not the code or the pair is a duplicate.
C34_CheckOrder ==
    [][ /\ (last'.op \in {"create_program", "create_course", "create_subject"}
               /\ ParentUnresolved(last'))
              => /\ last'.status = 400
                 /\ last'.detail = ParentNotFoundDetail(last'.op)
        /\ last'.op \in {"create_co", "create_co_po_mapping"}
              => /\ ~CreatePathResolves(last') => last'.status = 404
                 /\ (CreatePathResolves(last') /\ NotOwnerOfCreate(last'))
                       => last'.status = 403 ]_vars

(***************************************************************************)
(* SpecForged: bearer requests with issued tokens, fresh and expired, and  *)
(* with tokens that carry the same claims under a signature made with      *)
(* another secret.                                                         *)
(***************************************************************************)
Forged(token) == [token EXCEPT !.key = "another-secret"]
BearerTokens == tokens \cup {Forged(t) : t \in tokens}

NextForged ==
    \/ \E d \in SeededLogins : Login(d)
    \/ \E t \in BearerTokens : BearerGetMe(t)
    \/ \E t \in BearerTokens : BearerListUsers(t)
    \/ \E t \in BearerTokens : RefreshToken(t)
    \/ Tick

SpecForged == InitRead /\ [][NextForged]_vars

SignatureVerifies(token) == token.key = JWT_SECRET

\* C36: for a token that is expired or whose signature does not verify,
\* verify_token returns None and does not raise, and a bearer-protected
\* endpoint answers 401.
C36_InvalidTokenUnauthenticated ==
    [][ (last'.op \in BearerOps
            /\ (Expired(last'.body.token) \/ ~SignatureVerifies(last'.body.token)))
           => /\ verify_token(last'.body.token) = NoPayload
              /\ last'.status = 401 ]_vars

\* C38: in every reachable state, the states between the store accesses of
\* concurrent reset_setup and initialize_system requests included, a stored
\* setup record marked complete implies a stored user of role SUPER_ADMIN.
C38_CompleteSetupHasAdmin ==
    AlreadyInitialized(setup) => SuperAdmins # {}

(***************************************************************************)
(* SpecOwner: the two teachers working on COs, mappings and questions of   *)
(* one id in their two subjects.  The store starts empty or with the two   *)
(* COs and the two questions of that id stored in either order.            *)
(***************************************************************************)
Teachers == {u \in Callers : u.role = TEACHER}
OwnerCo(subject_id) == [id |-> "co1", subject_id |-> subject_id, code |-> "CO1"]
OwnerQuestion(subject_id) == [ChoiceQuestion("q1", "co1") EXCEPT !.subject_id = subject_id]
OwnerCoBodies == [id : {"co1"}, subject_id : {"s1", "s2"}, code : {"CO1", "CO2"}]
OwnerMappings == [id : {"m1"}, co_id : {"co1"}, po_id : {"p1"}, weight : {2, 3}]

InitOwner ==
    /\ users = SeededUsers
    /\ departments = SeededDepartments
    /\ programs = SeededPrograms
    /\ courses = SeededCourses
    /\ subjects = SeededSubjects
    /\ pos = SeededPos
    /\ \E first, second \in {"s1", "s2"} :
          /\ first # second
          /\ \/ cos = <<>> /\ questions = <<>> /\ first = "s1"
             \/ /\ cos = <<OwnerCo(first), OwnerCo(second)>>
                /\ questions = <<OwnerQuestion(first), OwnerQuestion(second)>>
    /\ co_po_mappings = <<>>
    /\ exam_questions = <<>>
    /\ setup = <<SetupStatus("u0")>>
    /\ next_uuid = 0
    /\ last = NoRequest
    /\ IdleProcs

NextOwner ==
    \/ \E u \in Teachers, s \in OwnedSubjectIds, b \in OwnerCoBodies : CreateCO(u, s, b)
    \/ \E u \in Teachers, b \in OwnerCoBodies : UpdateCO(u, "co1", b)
    \/ \E u \in Teachers : DeleteCO(u, "co1")
    \/ \E u \in Teachers, b \in OwnerMappings : CreateMapping(u, "co1", b)
    \/ \E u \in Teachers, b \in OwnerMappings : UpdateMapping(u, "m1", b)
    \/ \E u \in Teachers : DeleteMapping(u, "m1")
    \/ \E u \in Teachers, s \in OwnedSubjectIds :
          CreateQuestion(u, s, ChoiceQuestion("q1", "co1"))
    \/ \E u \in Teachers, s \in OwnedSubjectIds :
          UpdateQuestion(u, "q1", OwnerQuestion(s))
    \/ \E u \in Teachers : DeleteQuestion(u, "q1")

SpecOwner == InitOwner /\ [][NextOwner]_vars

Documents(coll) == {coll[i] : i \in 1..Len(coll)}

\* The documents that a step from the collection old to the collection new
\* inserted, replaced (the old and the new content) or removed.
Touched(old, new) ==
    IF Len(new) = Len(old)
        THEN UNION {{old[i], new[i]} : i \in {j \in 1..Len(old) : old[j] # new[j]}}
    ELSE IF Len(new) = Len(old) + 1 /\ SubSeq(new, 1, Len(old)) = old
        THEN {new[Len(new)]}
    ELSE IF Len(new) + 1 = Len(old) /\ \E i \in 1..Len(old) : new = Without(old, i)
        THEN {old[i] : i \in {j \in 1..Len(old) : new = Without(old, j)}}
    ELSE Documents(old) \cup Documents(new)

\* The teacher of the subject that a CO or question document names, and of
\* the subject of the CO that a mapping document names.
TeacherOfSubject(subject_id) ==
    IF Found(SubjectById(subject_id)) THEN subjects[SubjectById(subject_id)].teacher_id
    ELSE "-"
TeacherOfMapping(m) ==
    IF Found(CoById(m.co_id)) THEN TeacherOfSubject(cos[CoById(m.co_id)].subject_id)
    ELSE "-"

\* C39: every CO, mapping and question document that a request of a TEACHER
\* inserts, replaces or removes belongs to a subject whose teacher is the
\* caller, also when documents of other subjects carry the same id.
C39_TeacherWritesOwnRecordsOnly ==
    [][ (last'.op # "none" /\ StoredRole(last'.caller) = TEACHER)
           => /\ \A d \in Touched(cos, cos') : TeacherOfSubject(d.subject_id) = last'.caller
              /\ \A d \in Touched(questions, questions') :
                    TeacherOfSubject(d.subject_id) = last'.caller
              /\ \A d \in Touched(co_po_mappings, co_po_mappings') :
                    TeacherOfMapping(d) = last'.caller ]_vars

\* C39 witness: teacher t2 removed the question q1 of subject s2 while a
\* question of the same id stays stored in subject s1, next to two COs of one
\* id in the two subjects.
C39_Witness ==
    /\ last.op = "delete_question"
    /\ last.status = 200
    /\ last.caller = "t2"
    /\ Len(questions) = 1
    /\ questions[1].id = "q1" /\ questions[1].subject_id = "s1"
    /\ Len(cos) = 2 /\ cos[1].id = cos[2].id

(***************************************************************************)
(* SpecStatus: the setup handlers and create_user from a fresh store and   *)
(* from stores that hold a completed setup record and no administrator     *)
(* (no user at all, or a teacher only).                                    *)
(***************************************************************************)
InitStatus ==
    /\ \/ users = <<>> /\ setup = <<>>
       \/ /\ users \in {<<>>, <<SeededUsers[2]>>}
          /\ setup = <<SetupStatus("u0")>>
    /\ departments = <<>>
    /\ programs = <<>>
    /\ courses = <<>>
    /\ subjects = <<>>
    /\ pos = <<>>
    /\ cos = <<>>
    /\ co_po_mappings = <<>>
    /\ questions = <<>>
    /\ exam_questions = <<>>
    /\ next_uuid = 0
    /\ last = NoRequest
    /\ IdleProcs

SpecStatus == InitStatus /\ [][NextSetup]_vars

SetupStored == \E i \in 1..Len(setup) : setup[i].id = "setup"

\* C40: get_setup_status reports is_setup_complete = true only when a setup
\* record marked complete and a SUPER_ADMIN user are stored; with a setup
\* record and no SUPER_ADMIN stored it deletes the setup record and reports
\* is_setup_complete = false and setup_step = 0, and initialize_system is
\* rejected as already initialized only while a completed setup record is
\* stored, so not after that deletion; in every other case get_setup_status
\* changes no stored record.
C40_SetupStatusSelfHeals ==
    [][ /\ last'.op = "get_setup_status"
              => /\ last'.status = 200
                 /\ last'.returned.is_setup_complete = TRUE
                       => /\ \E i \in 1..Len(setup) : setup[i].is_setup_complete
                          /\ SuperAdmins # {}
                 /\ IF SetupStored /\ SuperAdmins = {}
                       THEN /\ \A i \in 1..Len(setup') : setup'[i].id # "setup"
                            /\ Len(setup') = Len(setup) - 1
                            /\ last'.returned = [is_setup_complete |-> FALSE, setup_step |-> 0]
                            /\ UNCHANGED <<users, next_uuid>>
                       ELSE UNCHANGED <<storeVars, next_uuid>>
        /\ (last'.op = "initialize_system" /\ last'.detail = AlreadyInitializedDetail)
              => \E i \in 1..Len(setup) : setup[i].is_setup_complete
        /\ (last'.op = "initialize_system" /\ last.op = "get_setup_status"
               /\ last.returned.is_setup_complete = FALSE)
              => last'.detail # AlreadyInitializedDetail ]_vars

\* C40 witness: initialize_system succeeded while the teacher of a store that
\* had a completed setup record and no administrator is still stored, so a
\* status check had deleted that record.
C40_Witness ==
    /\ last.op = "initialize_system"
    /\ last.status = 200
    /\ Len(users) = 2
    /\ users[1].role = TEACHER
    /\ users[2].role = SUPER_ADMIN
    /\ AlreadyInitialized(setup)

(***************************************************************************)
(* Concurrent updates of one question (SpecVersion).  Two requests run     *)
(* update_question, each await being one atomic step; a request that has   *)
(* returned may be followed by another, up to MaxRounds per client.        *)
(***************************************************************************)
Updaters == {"w1", "w2"}
UpdateBodies ==
    {[ChoiceQuestion("q1", c) EXCEPT !.version = v] : c \in {"co1", "co9"}, v \in {1, 7}}
CreationVersion == 1

Idle(p) == pc[p] = "idle"

\* One more store access of the request that p is serving.
Accessed(p) == loc' = [loc EXCEPT ![p].accesses = @ + 1]
Return(p, r) == resp' = [resp EXCEPT ![p] = r] /\ Goto(p, "idle")

\* The request arrives: Depends(get_teacher_user).
UpdateReceive(p, u, b) ==
    /\ p \in Updaters /\ Idle(p)
    /\ loc[p].rounds < MaxRounds
    /\ req' = [req EXCEPT ![p] = [question_id |-> "q1", question_data |-> b,
                                  current_user |-> u]]
    /\ loc' = [loc EXCEPT ![p].rounds = @ + 1, ![p].accesses = 0]
    /\ IF TeacherGate(u)
          THEN Goto(p, "find_question") /\ resp' = [resp EXCEPT ![p] = Pending]
          ELSE Return(p, [status |-> 403, detail |-> "Teacher access required"])
    /\ UNCHANGED <<concVars, keyed>>

\* existing_question = await db.questions.find_one({"id": question_id})
UpdateFindQuestion(p) ==
    /\ p \in Updaters /\ pc[p] = "find_question"
    /\ LET qi == QuestionById(req[p].question_id)
       IN  IF Found(qi)
              THEN /\ loc' = [loc EXCEPT ![p].existing_question = questions[qi],
                                          ![p].accesses = @ + 1]
                   /\ Goto(p, "find_subject")
                   /\ UNCHANGED resp
              ELSE /\ Return(p, [status |-> 404, detail |-> "Question not found"])
                   /\ Accessed(p)
    /\ UNCHANGED <<req, concVars, keyed>>

\* subject = await db.subjects.find_one({"id": existing_question["subject_id"]})
UpdateFindSubject(p) ==
    /\ p \in Updaters /\ pc[p] = "find_subject"
    /\ LET si == SubjectById(loc[p].existing_question.subject_id)
       IN  IF ~Found(si)
              THEN Return(p, [status |-> 404, detail |-> "Subject not found"])
           ELSE IF ~Allowed(req[p].current_user, subjects[si])
              THEN Return(p, [status |-> 403, detail |-> "Access denied"])
           ELSE Goto(p, "find_co") /\ UNCHANGED resp
    /\ Accessed(p)
    /\ UNCHANGED <<req, concVars, keyed>>

\* co = await db.cos.find_one({"id": question_data.co_id, "subject_id": ...})
UpdateFindCo(p) ==
    /\ p \in Updaters /\ pc[p] = "find_co"
    /\ IF Found(CoInSubject(req[p].question_data.co_id,
                            loc[p].existing_question.subject_id))
          THEN Goto(p, "replace_one") /\ UNCHANGED resp
          ELSE Return(p, [status |-> 400, detail |-> "CO not found in this subject"])
    /\ Accessed(p)
    /\ UNCHANGED <<req, concVars, keyed>>

\* question_data.version = existing_question.get("version", 1) + 1
StaleVersion(existing_question) == existing_question.version + 1

\* await db.questions.replace_one({"id": question_id}, question_data.dict())
UpdateReplaceOne(p) ==
    /\ p \in Updaters /\ pc[p] = "replace_one"
    /\ LET qi == QuestionById(req[p].question_id)
           doc == [KeepIdentity(req[p].question_data, req[p].question_id,
                                loc[p].existing_question)
                       EXCEPT !.version = StaleVersion(loc[p].existing_question)]
       IN  questions' = IF Found(qi) THEN ReplaceOne(questions, qi, doc).coll
                                     ELSE questions
    /\ loc' = [loc EXCEPT ![p].updates = @ + 1, ![p].accesses = @ + 1]
    /\ Return(p, [status |-> 200, detail |-> "OK"])
    /\ UNCHANGED <<users, departments, programs, courses, subjects, pos, cos,
                   co_po_mappings, exam_questions, setup, next_uuid, last, req, keyed,
                   tokens, now>>

InitConcurrentUpdates ==
    /\ users = SeededUsers
    /\ departments = SeededDepartments
    /\ programs = SeededPrograms
    /\ courses = SeededCourses
    /\ subjects = SeededSubjects
    /\ pos = SeededPos
    /\ cos = << [id |-> "co1", subject_id |-> "s1", code |-> "CO1"] >>
    /\ co_po_mappings = <<>>
    /\ questions = << [ChoiceQuestion("q1", "co1") EXCEPT !.version = CreationVersion] >>
    /\ exam_questions = <<>>
    /\ setup = <<>>
    /\ next_uuid = 0
    /\ last = NoRequest
    /\ keyed = <<>> /\ tokens = {} /\ now = 0
    /\ pc = [p \in Updaters |-> "idle"]
    /\ req = [p \in Updaters |-> NoBody]
    /\ loc = [p \in Updaters |->
                 [existing_question |-> NoBody, updates |-> 0, rounds |-> 0,
                  accesses |-> 0]]
    /\ resp = [p \in Updaters |-> Pending]

NextVersion ==
    \/ \E p \in Updaters, u \in Callers, b \in UpdateBodies : UpdateReceive(p, u, b)
    \/ \E p \in Updaters : UpdateFindQuestion(p)
    \/ \E p \in Updaters : UpdateFindSubject(p)
    \/ \E p \in Updaters : UpdateFindCo(p)
    \/ \E p \in Updaters : UpdateReplaceOne(p)

SpecVersion == InitConcurrentUpdates /\ [][NextVersion]_vars

RECURSIVE SuccessfulUpdates(_)
SuccessfulUpdates(ps) ==
    IF ps = {} THEN 0
    ELSE LET p == CHOOSE x \in ps : TRUE
         IN  loc[p].updates + SuccessfulUpdates(ps \ {p})

\* C17: every successful update_question stores the version it found plus
\* one, whatever version the body carries, so that once every request has
\* returned the stored version is the creation version plus the number of
\* successful updates, also when two updates ran concurrently.
C17_VersionCountsUpdates ==
    (\A p \in Updaters : Idle(p))
        => questions[1].version = CreationVersion + SuccessfulUpdates(Updaters)

(***************************************************************************)
(* Claims about the identity of COs and questions (SpecScope).             *)
(***************************************************************************)
\* coll2 is coll with document i replaced by a document of the same id and
\* subject_id, the id being path_id.
SameIdentityAt(coll, coll2, i, path_id) ==
    /\ Found(i)
    /\ Len(coll2) = Len(coll)
    /\ coll2[i].id = path_id
    /\ coll2[i].id = coll[i].id
    /\ coll2[i].subject_id = coll[i].subject_id
    /\ \A j \in 1..Len(coll) : j # i => coll2[j] = coll[j]

\* Every document of coll2 is a document of coll, but for a last document
\* that create_op has just appended.
OnlyAppended(coll, coll2, create_op, op) ==
    \A j \in 1..Len(coll2) :
        \/ \E k \in 1..Len(coll) : coll[k] = coll2[j]
        \/ op = create_op /\ j = Len(coll2) /\ Len(coll2) = Len(coll) + 1

\* C16: a successful update_co or update_question stores, in place of the
\* addressed record, a record whose id is the path id and whose subject_id is
\* the one stored before, whatever id and subject_id the body carries, and
\* changes no other record; no other operation changes a stored CO or question.
C16_IdAndSubjectImmutable ==
    [][ /\ (last'.op = "update_co" /\ last'.status = 200)
              => SameIdentityAt(cos, cos', CoById(last'.path), last'.path)
        /\ (last'.op = "update_question" /\ last'.status = 200)
              => SameIdentityAt(questions, questions', QuestionById(last'.path), last'.path)
        /\ last'.op # "update_co" => OnlyAppended(cos, cos', "create_co", last'.op)
        /\ last'.op # "update_question"
              => OnlyAppended(questions, questions', "create_question", last'.op) ]_vars

\* C16 witness: a successful update_question whose body carried another id
\* and another subject_id than the stored question.
C16_Witness ==
    /\ last.op = "update_question"
    /\ last.status = 200
    /\ last.body.id # last.path
    /\ Found(QuestionById(last.path))
    /\ questions[QuestionById(last.path)].subject_id # last.body.subject_id
    /\ questions[QuestionById(last.path)].version = 2

(***************************************************************************)
(* SpecRace: delete_co next to a concurrent create_question,               *)
(* update_question or create_co_po_mapping that names the same CO, every   *)
(* store access a separate atomic step.  loc[p].accesses counts the store  *)
(* accesses of the request that p is serving.                              *)
(***************************************************************************)
Deleter == "x1"
Writer == "w1"
RaceProcs == {Deleter, Writer}
RaceCallers == {u \in Callers : u.id \in {"u0", "t2"}}
RaceQuestions == {ChoiceQuestion("q2", "co1")}
RaceUpdates == {[ChoiceQuestion("q1", "co1") EXCEPT !.version = CreationVersion]}
RaceMappings == [id : {"m1"}, co_id : {"co1"}, po_id : {"p1"}, weight : {2}]

Receive(p, r, label) ==
    /\ Idle(p)
    /\ loc[p].rounds < MaxRounds
    /\ req' = [req EXCEPT ![p] = r]
    /\ loc' = [loc EXCEPT ![p].rounds = @ + 1, ![p].accesses = 0]
    /\ IF TeacherGate(r.current_user)
          THEN Goto(p, label) /\ resp' = [resp EXCEPT ![p] = Pending]
          ELSE Return(p, [status |-> 403, detail |-> "Teacher access required"])
    /\ UNCHANGED <<concVars, keyed>>

\* DELETE /cos/{co_id} arrives: Depends(get_teacher_user).
DeleteReceive(p, u, co_id) ==
    Receive(p, [co_id |-> co_id, current_user |-> u], "delete_find_co")

\* existing_co = await db.cos.find_one({"id": co_id})
DeleteFindCo(p) ==
    /\ pc[p] = "delete_find_co"
    /\ LET ci == CoById(req[p].co_id)
       IN  IF Found(ci)
              THEN /\ loc' = [loc EXCEPT ![p].co = cos[ci], ![p].accesses = @ + 1]
                   /\ Goto(p, "delete_find_subject")
                   /\ UNCHANGED resp
              ELSE /\ Return(p, [status |-> 404, detail |-> "CO not found"])
                   /\ Accessed(p)
    /\ UNCHANGED <<req, concVars, keyed>>

\* subject = await db.subjects.find_one({"id": existing_co["subject_id"]})
DeleteFindSubject(p) ==
    /\ pc[p] = "delete_find_subject"
    /\ LET si == SubjectById(loc[p].co.subject_id)
       IN  IF ~Found(si)
              THEN Return(p, [status |-> 404, detail |-> "Subject not found"])
           ELSE IF ~Allowed(req[p].current_user, subjects[si])
              THEN Return(p, [status |-> 403, detail |-> "Access denied"])
           ELSE Goto(p, "delete_count_questions") /\ UNCHANGED resp
    /\ Accessed(p)
    /\ UNCHANGED <<req, concVars, keyed>>

\* questions_count = await db.questions.count_documents({"co_id": co_id})
DeleteCountQuestions(p) ==
    /\ pc[p] = "delete_count_questions"
    /\ loc' = [loc EXCEPT
                 ![p].questions_count =
                     CountDocuments(questions, LAMBDA q : q.co_id = req[p].co_id),
                 ![p].accesses = @ + 1]
    /\ Goto(p, "delete_count_mappings")
    /\ UNCHANGED <<req, resp, concVars, keyed>>

\* mappings_count = await db.co_po_mappings.count_documents({"co_id": co_id})
DeleteCountMappings(p) ==
    /\ pc[p] = "delete_count_mappings"
    /\ LET mappings_count ==
               CountDocuments(co_po_mappings, LAMBDA m : m.co_id = req[p].co_id)
       IN  IF loc[p].questions_count > 0 \/ mappings_count > 0
              THEN Return(p, [status |-> 400,
                              detail |-> "Cannot delete CO. It is being used in questions or PO mappings"])
              ELSE Goto(p, "delete_one") /\ UNCHANGED resp
    /\ Accessed(p)
    /\ UNCHANGED <<req, concVars, keyed>>

\* await db.cos.delete_one({"id": co_id})
DeleteDeleteOne(p) ==
    /\ pc[p] = "delete_one"
    /\ LET ci == CoById(req[p].co_id)
       IN  cos' = IF Found(ci) THEN DeleteOne(cos, ci) ELSE cos
    /\ Accessed(p)
    /\ Return(p, [status |-> 200, detail |-> "CO deleted successfully"])
    /\ UNCHANGED <<users, departments, programs, courses, subjects, pos, co_po_mappings,
                   questions, exam_questions, setup, next_uuid, last, req, keyed,
                   tokens, now>>

\* POST /subjects/{subject_id}/questions arrives.
QuestionReceive(p, u, subject_id, b) ==
    Receive(p, [subject_id |-> subject_id, question_data |-> b, current_user |-> u],
            "question_find_subject")

\* subject = await db.subjects.find_one({"id": subject_id})
QuestionFindSubject(p) ==
    /\ pc[p] = "question_find_subject"
    /\ LET si == SubjectById(req[p].subject_id)
       IN  IF ~Found(si)
              THEN Return(p, [status |-> 404, detail |-> "Subject not found"])
           ELSE IF ~Allowed(req[p].current_user, subjects[si])
              THEN Return(p, [status |-> 403, detail |-> "Access denied"])
           ELSE Goto(p, "question_find_co") /\ UNCHANGED resp
    /\ Accessed(p)
    /\ UNCHANGED <<req, concVars, keyed>>

\* co = await db.cos.find_one({"id": question_data.co_id, "subject_id": subject_id})
\* and the checks of the payload, which read no store.
QuestionFindCo(p) ==
    /\ pc[p] = "question_find_co"
    /\ IF ~Found(CoInSubject(req[p].question_data.co_id, req[p].subject_id))
          THEN Return(p, [status |-> 400, detail |-> "CO not found in this subject"])
       ELSE IF InvalidChoicePayload(req[p].question_data)
          THEN Return(p, [status |-> 400,
                          detail |-> "Options and correct key are required for MCQ/MSQ/True-False questions"])
       ELSE IF InvalidNumericPayload(req[p].question_data)
          THEN Return(p, [status |-> 400,
                          detail |-> "Correct answer is required for numeric questions"])
       ELSE Goto(p, "question_insert_one") /\ UNCHANGED resp
    /\ Accessed(p)
    /\ UNCHANGED <<req, concVars, keyed>>

\* await db.questions.insert_one(question_data.dict())
QuestionInsertOne(p) ==
    /\ pc[p] = "question_insert_one"
    /\ questions' = InsertOne(questions, [req[p].question_data
                                              EXCEPT !.subject_id = req[p].subject_id]).coll
    /\ Accessed(p)
    /\ Return(p, [status |-> 200, detail |-> "OK"])
    /\ UNCHANGED <<users, departments, programs, courses, subjects, pos, cos,
                   co_po_mappings, exam_questions, setup, next_uuid, last, req, keyed,
                   tokens, now>>

\* POST /cos/{co_id}/po-mappings arrives.
MappingReceive(p, u, co_id, b) ==
    Receive(p, [co_id |-> co_id, mapping_data |-> b, current_user |-> u],
            "mapping_find_co")

\* co = await db.cos.find_one({"id": co_id})
MappingFindCo(p) ==
    /\ pc[p] = "mapping_find_co"
    /\ LET ci == CoById(req[p].co_id)
       IN  IF Found(ci)
              THEN /\ loc' = [loc EXCEPT ![p].co = cos[ci], ![p].accesses = @ + 1]
                   /\ Goto(p, "mapping_find_subject")
                   /\ UNCHANGED resp
              ELSE /\ Return(p, [status |-> 404, detail |-> "CO not found"])
                   /\ Accessed(p)
    /\ UNCHANGED <<req, concVars, keyed>>

\* subject = await db.subjects.find_one({"id": co["subject_id"]})
MappingFindSubject(p) ==
    /\ pc[p] = "mapping_find_subject"
    /\ LET si == SubjectById(loc[p].co.subject_id)
       IN  IF ~Found(si)
              THEN Return(p, [status |-> 404, detail |-> "Subject not found"])
           ELSE IF ~Allowed(req[p].current_user, subjects[si])
              THEN Return(p, [status |-> 403, detail |-> "Access denied"])
           ELSE Goto(p, "mapping_find_po") /\ UNCHANGED resp
    /\ Accessed(p)
    /\ UNCHANGED <<req, concVars, keyed>>

\* po = await db.pos.find_one({"id": mapping_data.po_id})
MappingFindPo(p) ==
    /\ pc[p] = "mapping_find_po"
    /\ IF Found(PoById(req[p].mapping_data.po_id))
          THEN Goto(p, "mapping_find_existing") /\ UNCHANGED resp
          ELSE Return(p, [status |-> 404, detail |-> "PO not found"])
    /\ Accessed(p)
    /\ UNCHANGED <<req, concVars, keyed>>

\* existing_mapping = await db.co_po_mappings.find_one({"co_id": ..., "po_id": ...})
MappingFindExisting(p) ==
    /\ pc[p] = "mapping_find_existing"
    /\ IF Found(ExistingMapping(req[p].co_id, req[p].mapping_data))
          THEN Return(p, [status |-> 400, detail |-> "CO-PO mapping already exists"])
          ELSE Goto(p, "mapping_insert_one") /\ UNCHANGED resp
    /\ Accessed(p)
    /\ UNCHANGED <<req, concVars, keyed>>

\* await db.co_po_mappings.insert_one(mapping_data.dict())
MappingInsertOne(p) ==
    /\ pc[p] = "mapping_insert_one"
    /\ LET ins == InsertOneUnique(co_po_mappings,
                                  [req[p].mapping_data EXCEPT !.co_id = req[p].co_id],
                                  MappingIndexKey)
       IN  /\ co_po_mappings' = ins.coll
           /\ IF ins.ok THEN Return(p, [status |-> 200, detail |-> "OK"])
                        ELSE Return(p, [status |-> 500, detail |-> "Internal Server Error"])
    /\ Accessed(p)
    /\ UNCHANGED <<users, departments, programs, courses, subjects, pos, cos,
                   questions, exam_questions, setup, next_uuid, last, req, keyed,
                   tokens, now>>

InitRace ==
    /\ users = SeededUsers
    /\ departments = SeededDepartments
    /\ programs = SeededPrograms
    /\ courses = SeededCourses
    /\ subjects = SeededSubjects
    /\ pos = SeededPos
    /\ cos = << [id |-> "co1", subject_id |-> "s1", code |-> "CO1"],
                [id |-> "co2", subject_id |-> "s1", code |-> "CO2"] >>
    /\ co_po_mappings = <<>>
    /\ questions = << [ChoiceQuestion("q1", "co2") EXCEPT !.version = CreationVersion] >>
    /\ exam_questions = <<>>
    /\ setup = <<>>
    /\ next_uuid = 0
    /\ last = NoRequest
    /\ keyed = <<>> /\ tokens = {} /\ now = 0
    /\ pc = [p \in RaceProcs |-> "idle"]
    /\ req = [p \in RaceProcs |-> NoBody]
    /\ loc = [p \in RaceProcs |->
                 [existing_question |-> NoBody, co |-> NoBody, questions_count |-> 0,
                  updates |-> 0, rounds |-> 0, accesses |-> 0]]
    /\ resp = [p \in RaceProcs |-> Pending]

NextRace ==
    \/ \E u \in RaceCallers : DeleteReceive(Deleter, u, "co1")
    \/ DeleteFindCo(Deleter)
    \/ DeleteFindSubject(Deleter)
    \/ DeleteCountQuestions(Deleter)
    \/ DeleteCountMappings(Deleter)
    \/ DeleteDeleteOne(Deleter)
    \/ \E u \in RaceCallers, b \in RaceQuestions : QuestionReceive(Writer, u, "s1", b)
    \/ QuestionFindSubject(Writer)
    \/ QuestionFindCo(Writer)
    \/ QuestionInsertOne(Writer)
    \/ \E u \in RaceCallers, b \in RaceUpdates : UpdateReceive(Writer, u, b)
    \/ UpdateFindQuestion(Writer)
    \/ UpdateFindSubject(Writer)
    \/ UpdateFindCo(Writer)
    \/ UpdateReplaceOne(Writer)
    \/ \E u \in RaceCallers, b \in RaceMappings : MappingReceive(Writer, u, "co1", b)
    \/ MappingFindCo(Writer)
    \/ MappingFindSubject(Writer)
    \/ MappingFindPo(Writer)
    \/ MappingFindExisting(Writer)
    \/ MappingInsertOne(Writer)

SpecRace == InitRace /\ [][NextRace]_vars

\* C35: a request makes at least 1 and at most 4 store accesses in its
\* handler: the count of a request in progress never exceeds 4, and a request
\* that the handler answered has made at least one.
C35_StoreAccessBound ==
    \A p \in RaceProcs :
        /\ loc[p].accesses <= 4
        /\ (Idle(p) /\ resp[p].status \notin {0, 403}) => loc[p].accesses >= 1

CoStored(co_id) == \E i \in 1..Len(cos) : cos[i].id = co_id

\* C37: no interleaving of delete_co with a concurrent create_question,
\* update_question or create_co_po_mapping leaves a stored question or
\* mapping that carries the co_id of a CO that is not stored.
C37_NoDanglingCo ==
    /\ \A i \in 1..Len(questions) : CoStored(questions[i].co_id)
    /\ \A i \in 1..Len(co_po_mappings) : CoStored(co_po_mappings[i].co_id)

====
